---- MODULE Spec2Model ----
(***************************************************************************)
(* Model of the PagerDuty Terraform provider plugin (pagerdutyplugin):     *)
(* the retry loops around the API calls, the error classification, the     *)
(* mutex around AssociateServiceDependencies and the CRUD handlers of the  *)
(* framework resources.                                                    *)
(***************************************************************************)
EXTENDS Integers, Sequences, FiniteSets, TLC

VARIABLES
    loop,       \* the retry.RetryContext loop in progress
    mu,         \* resourceServiceDependencyMu: 0 when free, else the holder
    pc,         \* position of every concurrent service dependency Create
    relationships, \* remote list of service dependencies, by the id of each
    depState,   \* id in the state written by every Create, 0 when not set
    depDiags,   \* whether every Create has added an error diagnostic
    rtype,      \* type name of the resource instance the handlers serve
    tfstate,    \* Terraform state of the instance, NoState when it has none
    imported,   \* state of the same object under a second, imported address
    remote,     \* objects of the API, by id
    diags,      \* diagnostics of the last operation
    last,       \* the last operation: its name, address and API calls
    createdId,  \* id the API returned to the Create of the instance
    providerConfig, \* the Config of the provider
    built,      \* result of the last Config.Client or Config.SlackClient
    client,     \* the client field of a resource and of the Slack connection
    configured  \* the last Configure call of a resource

loopVars == <<loop>>
depVars == <<mu, pc, relationships, depState, depDiags>>
crudVars == <<rtype, tfstate, imported, remote, diags, last, createdId>>
cfgVars == <<providerConfig, built, client, configured>>
vars == <<loop, mu, pc, relationships, depState, depDiags,
          rtype, tfstate, imported, remote, diags, last, createdId,
          providerConfig, built, client, configured>>

(***************************************************************************)
(* Bounds of the model.                                                    *)
(***************************************************************************)
\* longest time, in minutes, one attempt of a retry loop (API call plus the
\* wait before the next attempt) takes
MaxDelay == 2
\* number of concurrent Create operations on service dependencies
NumProcs == 3
\* length of the longest list of services the API holds for a query
MaxServices == 21

(***************************************************************************)
(* Values of the plugin framework: types.String is null, unknown or a      *)
(* known string, and ValueString() of the first two is the empty string.   *)
(***************************************************************************)
StringNull == [k |-> "null", v |-> ""]
StringUnknown == [k |-> "unknown", v |-> ""]
StringValue(s) == [k |-> "value", v |-> s]
IsNull(x) == x.k = "null"
IsUnknown(x) == x.k = "unknown"
ValueString(x) == IF x.k = "value" THEN x.v ELSE ""

\* ids the API gives to its objects
Ids == {"P1", "P2"}
NoObj == [absent |-> TRUE]
NoState == [absent |-> TRUE]
NoDiags == [errors |-> {}, warnings |-> {}]
NoOp == [op |-> "none", slot |-> "none", calls |-> <<>>]

(***************************************************************************)
(* Errors returned by the API client, and their classification.            *)
(***************************************************************************)
StatusBadRequest == 400
StatusNotFound == 404
StatusMethodNotAllowed == 405

NoErr == [kind |-> "nil", code |-> 0]
APIError(c) == [kind |-> "api", code |-> c]
\* an error that is not a pagerduty.APIError; nf tells whether its message
\* ends with ": 404 Not Found"
TextError(nf) == [kind |-> IF nf THEN "text404" ELSE "text", code |-> 0]

\* the statuses the handlers tell apart, a rate limit and a server error
StatusCodes == {StatusBadRequest, StatusNotFound, StatusMethodNotAllowed, 429, 500}
Errors == {APIError(c) : c \in StatusCodes} \cup {TextError(TRUE), TextError(FALSE)}
\* what one API call can answer: success (NoErr) or an error
Responses == {NoErr} \cup Errors

IsStatusCodeError(err, errCode) == err.kind = "api" /\ err.code = errCode

IsBadRequestError(err) == IsStatusCodeError(err, StatusBadRequest)

IsNotFoundError(err) ==
    IF err = NoErr THEN FALSE
    ELSE IF err.kind = "api" /\ err.code = StatusNotFound THEN TRUE
    ELSE err.kind = "text404"

(***************************************************************************)
(* The retry loops.  Every loop is named after the function that holds it. *)
(***************************************************************************)
RetryTime == 2
RetryTimeLong == 5

\* loops whose body is the function of a requestGet helper taking the
\* retryNotFound parameter
NotFoundParamLoops == {
    "requestGetEventOrchestration",
    "requestGetServiceIntegration",
    "requestGetSlackConnection",
    "requestGetIncidentCustomField",
    "requestGetBusinessServiceSubscriber" }

CreateLoops == {
    "resourceBusinessService.Create",
    "resourceEventOrchestration.Create",
    "resourceIncidentCustomFieldOption.Create",
    "resourceServiceIntegration.Create",
    "resourceSlackConnection.Create",
    "resourceIncidentCustomField.Create",
    "resourceBusinessServiceSubscriber.Create" }

LoopKinds == CreateLoops \cup NotFoundParamLoops \cup {
    "dataSourceService.Read",
    "requestGetBusinessService",
    "resourceMaintenanceWindow.Read",
    "requestGetServiceDependency",
    "resourceIncidentCustomFieldOption.Read",
    "resourceSlackConnection.Delete",
    "dataSourceExtensionSchema.Read",
    "dataSourceUserContactMethod.Read",
    "dataSourceIncidentCustomField.Read" }

LoopBudget_WrongTimeout(kind) ==
    CASE kind = "resourceBusinessService.Create" -> RetryTimeLong
      [] kind = "requestGetBusinessService" -> RetryTimeLong
      [] kind = "dataSourceUserContactMethod.Read" -> RetryTimeLong
      [] OTHER -> RetryTime

\* the timeout every loop passes to retry.RetryContext, in minutes
LoopBudget(kind) ==
    CASE kind = "resourceBusinessService.Create" -> RetryTimeLong
      [] kind = "requestGetBusinessService" -> RetryTimeLong
      [] kind = "requestGetServiceDependency" -> RetryTimeLong
      [] kind = "dataSourceUserContactMethod.Read" -> RetryTimeLong
      [] OTHER -> RetryTime

\* the classification most loops apply to an error of the API call:
\* a 400 is not retryable, anything else is
BadRequestStops(err) ==
    IF IsBadRequestError(err) THEN "nonretryable" ELSE "retryable"

NotFoundParamStops_RetriesNotFound(retryNotFound, err) ==
    IF IsBadRequestError(err) THEN "nonretryable"
    ELSE "retryable"

\* the classification of the requestGet helpers with retryNotFound
NotFoundParamStops(retryNotFound, err) ==
    IF IsBadRequestError(err) THEN "nonretryable"
    ELSE IF ~retryNotFound /\ IsNotFoundError(err) THEN "nonretryable"
    ELSE "retryable"

\* the classification of the loops that stop on 400 and on 404
BadRequestOrNotFoundStops(err) ==
    IF IsBadRequestError(err) \/ IsNotFoundError(err) THEN "nonretryable"
    ELSE "retryable"

resourceBusinessService_CreateBody(err) ==
    IF err # NoErr THEN "nonretryable" ELSE "nil"

requestGetBusinessService_Body(err) ==
    IF err # NoErr THEN "retryable" ELSE "nil"

\* every error of the list call, and the error built for a resource type
\* that is not known, is returned as retryable
requestGetServiceDependency_Body(err) ==
    IF err # NoErr THEN "retryable" ELSE "nil"

resourceSlackConnection_DeleteBody(err) ==
    IF err = NoErr THEN "nil"
    ELSE IF IsBadRequestError(err) THEN "nonretryable"
    ELSE IF IsNotFoundError(err) THEN "nil"
    ELSE "retryable"

\* what the function passed to retry.RetryContext returns for the answer
\* err of its API call: "nil", "nonretryable" or "retryable"
LoopBody(kind, retryNotFound, err) ==
    CASE kind = "resourceBusinessService.Create" ->
            resourceBusinessService_CreateBody(err)
      [] kind = "requestGetBusinessService" ->
            requestGetBusinessService_Body(err)
      [] kind = "requestGetServiceDependency" ->
            requestGetServiceDependency_Body(err)
      [] kind = "resourceSlackConnection.Delete" ->
            resourceSlackConnection_DeleteBody(err)
      [] kind \in NotFoundParamLoops ->
            IF err = NoErr THEN "nil" ELSE NotFoundParamStops(retryNotFound, err)
      [] kind \in {"resourceMaintenanceWindow.Read",
                   "resourceIncidentCustomFieldOption.Read",
                   "dataSourceUserContactMethod.Read"} ->
            IF err = NoErr THEN "nil" ELSE BadRequestOrNotFoundStops(err)
      [] OTHER ->
            IF err = NoErr THEN "nil" ELSE BadRequestStops(err)

(***************************************************************************)
(* retry.RetryContext: the function is called again while it returns a     *)
(* retryable error and the timeout has not elapsed.  The loop returns nil  *)
(* after a nil, the error after a non retryable error, and the last error  *)
(* once the timeout has elapsed.                                           *)
(***************************************************************************)
IdleLoop == [kind |-> "none", retryNotFound |-> FALSE, status |-> "idle",
             elapsed |-> 0, attempts |-> 0, last |-> NoErr,
             err |-> NoErr, timedOut |-> FALSE]

NewLoop(kind, retryNotFound) ==
    [IdleLoop EXCEPT !.kind = kind, !.retryNotFound = retryNotFound,
                     !.status = "running"]

\* one attempt of the loop l: the API call answers resp and the attempt,
\* with the wait that follows it, takes d minutes
RetryStep(l, resp, d) ==
    LET ret == LoopBody(l.kind, l.retryNotFound, resp)
        now == l.elapsed + d
        l1 == [l EXCEPT !.elapsed = now, !.attempts = l.attempts + 1,
                        !.last = resp]
    IN  CASE ret = "nil" -> [l1 EXCEPT !.status = "done", !.err = NoErr]
          [] ret = "nonretryable" -> [l1 EXCEPT !.status = "done", !.err = resp]
          [] OTHER ->
                IF now >= LoopBudget(l.kind)
                THEN [l1 EXCEPT !.status = "done", !.err = resp, !.timedOut = TRUE]
                ELSE [l1 EXCEPT !.err = resp]

LoopInit == loop = IdleLoop

RetryBegin(kind, retryNotFound) ==
    /\ loop.status = "idle"
    /\ loop' = NewLoop(kind, retryNotFound)
    /\ UNCHANGED <<depVars, crudVars, cfgVars>>

RetryAttempt(resp, d) ==
    /\ loop.status = "running"
    /\ loop' = RetryStep(loop, resp, d)
    /\ UNCHANGED <<depVars, crudVars, cfgVars>>

RetryReturn ==
    /\ loop.status = "done"
    /\ loop' = IdleLoop
    /\ UNCHANGED <<depVars, crudVars, cfgVars>>

(***************************************************************************)
(* The provider configuration: Config.Client, Config.SlackClient and the   *)
(* Configure helpers of the resources and data sources.                    *)
(***************************************************************************)
\* a nil *pagerduty.Client, and the client pagerduty.NewClient returns for
\* a token and the options WithAPIEndpoint and WithScopedOAuthAppTokenSource
NilClient == [nil |-> TRUE]
pagerduty_NewClient(token, apiURL, oauth) ==
    [nil |-> FALSE, token |-> token, endpoint |-> apiURL, oauth |-> oauth]

\* a nil *AppOauthScopedToken and a set one
NilAppOauthScopedToken == [nil |-> TRUE]
AppOauthScopedToken == [nil |-> FALSE, ClientID |-> "id", ClientSecret |-> "secret",
                        Subdomain |-> "sub"]

Config(token, userToken, skip, override, oauth) ==
    [APIURL |-> "https://api.pagerduty.com", APIURLOverride |-> override,
     Token |-> token, UserToken |-> userToken, SkipCredsValidation |-> skip,
     AppOauthScopedToken |-> oauth]

Configs ==
    {Config(token, userToken, skip, override, oauth) :
        token \in {"", "t"}, userToken \in {"", "u"}, skip \in BOOLEAN,
        override \in {"", "https://api.eu.pagerduty.com"},
        oauth \in {NilAppOauthScopedToken, AppOauthScopedToken}}

\* the errors of Client and SlackClient: fmt.Errorf(invalidCreds), and the
\* error of the validation call followed by invalidCreds
invalidCreds == [kind |-> "invalidCreds", code |-> 0]
ValidationError(err) == [kind |-> "validation: " \o err.kind, code |-> err.code]

ClientResult(c, err, calls) == [client |-> c, err |-> err, calls |-> calls]

\* getClient that always uses APIURL
Config_getClient_NoOverride(c, token, oauth, answer) ==
    LET apiURL == c.APIURL
        cl == pagerduty_NewClient(token, apiURL, oauth)
    IN IF ~c.SkipCredsValidation
       THEN IF answer # NoErr
            THEN ClientResult(NilClient, ValidationError(answer), <<"ListAbilities">>)
            ELSE ClientResult(cl, NoErr, <<"ListAbilities">>)
       ELSE ClientResult(cl, NoErr, <<>>)

\* answer is what ListAbilitiesWithContext returns if it is called
Config_getClient(c, token, oauth, answer) ==
    LET apiURL == IF c.APIURLOverride # "" THEN c.APIURLOverride ELSE c.APIURL
        cl == pagerduty_NewClient(token, apiURL, oauth)
    IN IF ~c.SkipCredsValidation
       THEN IF answer # NoErr
            THEN ClientResult(NilClient, ValidationError(answer), <<"ListAbilities">>)
            ELSE ClientResult(cl, NoErr, <<"ListAbilities">>)
       ELSE ClientResult(cl, NoErr, <<>>)

Config_Client(c, answer) ==
    LET oauth == ~c.AppOauthScopedToken.nil
    IN IF c.Token = "" /\ c.AppOauthScopedToken.nil
       THEN ClientResult(NilClient, invalidCreds, <<>>)
       ELSE Config_getClient(c, c.Token, oauth, answer)

Config_SlackClient(c, answer) ==
    IF c.UserToken = ""
    THEN ClientResult(NilClient, invalidCreds, <<>>)
    ELSE Config_getClient(c, c.UserToken, FALSE, answer)

\* the providerData of a Configure request: nil before the provider is
\* configured, the ProviderData of the provider after, or a value of
\* another type
NilProviderData == [type |-> "nil"]
ProviderData(c, s) == [type |-> "ProviderData", client |-> c, slackClient |-> s]
OtherProviderData == [type |-> "*pagerduty.Client"]

ProviderDatas ==
    {NilProviderData, OtherProviderData,
     ProviderData(pagerduty_NewClient("t", "https://api.pagerduty.com", FALSE),
                  pagerduty_NewClient("u", "https://api.pagerduty.com", FALSE))}

\* dst is never nil: every Configure passes &r.client or &d.client
getPagerdutyProviderData(providerData) ==
    IF providerData = NilProviderData
    THEN [data |-> ProviderData(NilClient, NilClient), errors |-> {}]
    ELSE IF providerData.type # "ProviderData"
    THEN [data |-> ProviderData(NilClient, NilClient),
          errors |-> {"Unexpected Data Source Configure Type"}]
    ELSE [data |-> providerData, errors |-> {}]

\* both return the new value of *dst and the diagnostics
ConfigurePagerdutyClient(dst, providerData) ==
    LET r == getPagerdutyProviderData(providerData)
    IN IF r.errors # {}
       THEN [dst |-> dst, errors |-> r.errors]
       ELSE [dst |-> r.data.client, errors |-> r.errors]

ConfigurePagerdutySlackClient(dst, providerData) ==
    LET r == getPagerdutyProviderData(providerData)
    IN IF r.errors # {}
       THEN [dst |-> dst, errors |-> r.errors]
       ELSE [dst |-> r.data.slackClient, errors |-> r.errors]

NoBuilt == [op |-> "none"]
NoConfigure == [kind |-> "none"]

\* the provider is not configured and no resource has a client
CfgIdle ==
    /\ providerConfig = Config("", "", FALSE, "", NilAppOauthScopedToken)
    /\ built = NoBuilt
    /\ client = [generic |-> NilClient, slack |-> NilClient]
    /\ configured = NoConfigure

ConfigClient ==
    /\ \E answer \in Responses :
          built' = [op |-> "Client", res |-> Config_Client(providerConfig, answer),
                    answer |-> answer]
    /\ UNCHANGED <<providerConfig, client, configured, loop, depVars, crudVars>>

ConfigSlackClient ==
    /\ \E answer \in Responses :
          built' = [op |-> "SlackClient", res |-> Config_SlackClient(providerConfig, answer),
                    answer |-> answer]
    /\ UNCHANGED <<providerConfig, client, configured, loop, depVars, crudVars>>

\* Configure of a resource or data source other than the Slack connection
ConfigureResource ==
    /\ \E providerData \in ProviderDatas :
          LET r == ConfigurePagerdutyClient(client.generic, providerData)
          IN /\ client' = [client EXCEPT !.generic = r.dst]
             /\ configured' = [kind |-> "generic", providerData |-> providerData,
                               errors |-> r.errors]
    /\ UNCHANGED <<providerConfig, built, loop, depVars, crudVars>>

resourceSlackConnection_Configure ==
    /\ \E providerData \in ProviderDatas :
          LET r == ConfigurePagerdutySlackClient(client.slack, providerData)
          IN /\ client' = [client EXCEPT !.slack = r.dst]
             /\ configured' = [kind |-> "slack", providerData |-> providerData,
                               errors |-> r.errors]
    /\ UNCHANGED <<providerConfig, built, loop, depVars, crudVars>>

DepIdle ==
    /\ mu = 0
    /\ pc = [p \in 1..NumProcs |-> "start"]
    /\ relationships = {}
    /\ depState = [p \in 1..NumProcs |-> 0]
    /\ depDiags = [p \in 1..NumProcs |-> FALSE]

\* no resource instance is served
CrudIdle ==
    /\ rtype = "none"
    /\ tfstate = NoState
    /\ imported = NoState
    /\ remote = [id \in Ids |-> NoObj]
    /\ diags = NoDiags
    /\ last = NoOp
    /\ createdId = ""

RetryInit == LoopInit /\ DepIdle /\ CrudIdle /\ CfgIdle

RetryNext ==
    \/ \E kind \in LoopKinds, retryNotFound \in BOOLEAN :
          /\ (retryNotFound => kind \in NotFoundParamLoops)
          /\ RetryBegin(kind, retryNotFound)
    \/ \E resp \in Responses, d \in 1..MaxDelay : RetryAttempt(resp, d)
    \/ RetryReturn

SpecRetry == RetryInit /\ [][RetryNext]_vars

\* the loop runs in the goroutine of its operation, which is scheduled
\* until it returns
FairSpecRetry ==
    SpecRetry /\ WF_vars(\E resp \in Responses, d \in 1..MaxDelay : RetryAttempt(resp, d))

(***************************************************************************)
(* The provider builds its clients from a Config, and the framework calls  *)
(* Configure of every resource and data source, any number of times.       *)
(***************************************************************************)
ConfigInit ==
    /\ LoopInit
    /\ DepIdle
    /\ CrudIdle
    /\ providerConfig \in Configs
    /\ built = NoBuilt
    /\ client = [generic |-> NilClient, slack |-> NilClient]
    /\ configured = NoConfigure

ConfigNext ==
    \/ ConfigClient
    \/ ConfigSlackClient
    \/ ConfigureResource
    \/ resourceSlackConnection_Configure

SpecConfig == ConfigInit /\ [][ConfigNext]_vars

\* C12: Config.Client returns an error and a nil client exactly when Token
\* is empty and AppOauthScopedToken is nil, or SkipCredsValidation is false
\* and the abilities call fails; with SkipCredsValidation no validation call
\* is made; Config.SlackClient returns an error and a nil client when
\* UserToken is empty; the endpoint of a returned client is APIURLOverride
\* when that is not empty and APIURL otherwise.
C12_ClientErrors ==
    /\ built.op = "Client" =>
          LET noCreds == providerConfig.Token = "" /\ providerConfig.AppOauthScopedToken.nil
              validationFails == /\ ~providerConfig.SkipCredsValidation
                                 /\ built.res.calls = <<"ListAbilities">>
                                 /\ built.answer # NoErr
          IN /\ (built.res.err # NoErr) <=> (noCreds \/ validationFails)
             /\ (built.res.err # NoErr) <=> (built.res.client = NilClient)
             /\ providerConfig.SkipCredsValidation => built.res.calls = <<>>
             /\ (~providerConfig.SkipCredsValidation /\ ~noCreds) =>
                    built.res.calls = <<"ListAbilities">>
    /\ built.op = "SlackClient" =>
          /\ providerConfig.UserToken = "" =>
                /\ built.res.err # NoErr
                /\ built.res.client = NilClient
                /\ built.res.calls = <<>>
          /\ (built.res.err # NoErr) <=> (built.res.client = NilClient)
          /\ providerConfig.SkipCredsValidation => built.res.calls = <<>>
    /\ (built.op # "none" /\ built.res.client # NilClient) =>
          /\ built.res.client.endpoint =
                IF providerConfig.APIURLOverride # "" THEN providerConfig.APIURLOverride
                ELSE providerConfig.APIURL
          /\ built.res.client.token =
                IF built.op = "Client" THEN providerConfig.Token ELSE providerConfig.UserToken

\* Client has validated a token against the overridden endpoint
C12_Witness ==
    /\ built.op = "Client"
    /\ providerConfig.APIURLOverride # ""
    /\ ~providerConfig.SkipCredsValidation
    /\ built.res.calls = <<"ListAbilities">>
    /\ built.res.err = NoErr
    /\ built.res.client.endpoint = providerConfig.APIURLOverride

\* C18: a Configure call with nil provider data or with provider data of
\* another type leaves the client pointer as it was, the latter with an
\* error diagnostic; a call with a ProviderData sets it to the client of the
\* provider (the Slack client for the Slack connection); a configured client
\* is never replaced by nil.
C18_ConfigureStep ==
    (configured' # configured \/ client' # client) =>
        LET k == configured'.kind
            pd == configured'.providerData
        IN /\ pd.type # "ProviderData" => client'[k] = client[k]
           /\ pd.type = "*pagerduty.Client" => configured'.errors # {}
           /\ pd.type = "ProviderData" =>
                 client'[k] = IF k = "slack" THEN pd.slackClient ELSE pd.client
           /\ client[k] # NilClient => client'[k] # NilClient

C18_ConfigureKeepsClient == [][C18_ConfigureStep]_vars

(***************************************************************************)
(* resourceServiceDependency.Create, run by NumProcs goroutines at once.   *)
(* The dependency created by goroutine p gets the id p.                    *)
(***************************************************************************)
Procs == 1..NumProcs

resourceServiceDependencyMu_Lock_NoWait(p) ==
    /\ pc[p] = "start"
    /\ mu' = p
    /\ pc' = [pc EXCEPT ![p] = "locked"]
    /\ UNCHANGED <<relationships, depState, depDiags, loop, crudVars, cfgVars>>

\* resourceServiceDependencyMu.Lock() returns once the mutex is free
resourceServiceDependencyMu_Lock(p) ==
    /\ pc[p] = "start"
    /\ mu = 0
    /\ mu' = p
    /\ pc' = [pc EXCEPT ![p] = "locked"]
    /\ UNCHANGED <<relationships, depState, depDiags, loop, crudVars, cfgVars>>

\* the request of AssociateServiceDependenciesWithContext is sent
AssociateServiceDependencies_Send(p) ==
    /\ pc[p] = "locked"
    /\ pc' = [pc EXCEPT ![p] = "calling"]
    /\ UNCHANGED <<mu, relationships, depState, depDiags, loop, crudVars, cfgVars>>

\* the call returns: the relationship is in the remote list unless the API
\* answered with an error
AssociateServiceDependencies_Return(p, err) ==
    /\ pc[p] = "calling"
    /\ relationships' = IF err = NoErr THEN relationships \cup {p} ELSE relationships
    /\ pc' = [pc EXCEPT ![p] = IF err = NoErr THEN "returned" ELSE "failed"]
    /\ UNCHANGED <<mu, depState, depDiags, loop, crudVars, cfgVars>>

resourceServiceDependencyMu_Unlock(p) ==
    /\ pc[p] \in {"returned", "failed"}
    /\ mu' = 0
    /\ pc' = [pc EXCEPT ![p] = IF pc[p] = "returned" THEN "flatten" ELSE "error"]
    /\ UNCHANGED <<relationships, depState, depDiags, loop, crudVars, cfgVars>>

\* the rest of Create: an error diagnostic after an error, else the state
\* is set from the relationship of the response
resourceServiceDependency_CreateEnd(p) ==
    /\ pc[p] \in {"flatten", "error"}
    /\ depDiags' = [depDiags EXCEPT ![p] = (pc[p] = "error")]
    /\ depState' = [depState EXCEPT ![p] = IF pc[p] = "flatten" THEN p ELSE 0]
    /\ pc' = [pc EXCEPT ![p] = "done"]
    /\ UNCHANGED <<mu, relationships, loop, crudVars, cfgVars>>

MuInit == LoopInit /\ DepIdle /\ CrudIdle /\ CfgIdle

MuNext ==
    \E p \in Procs :
        \/ resourceServiceDependencyMu_Lock(p)
        \/ AssociateServiceDependencies_Send(p)
        \/ \E err \in Responses : AssociateServiceDependencies_Return(p, err)
        \/ resourceServiceDependencyMu_Unlock(p)
        \/ resourceServiceDependency_CreateEnd(p)

SpecMu == MuInit /\ [][MuNext]_vars

\* the AssociateServiceDependencies calls in flight
InFlight == {p \in Procs : pc[p] = "calling"}

\* C1: at most one AssociateServiceDependencies call is in flight at any
\* moment, and the Create that issued it holds resourceServiceDependencyMu.
C1_OneAssociateInFlight ==
    /\ Cardinality(InFlight) <= 1
    /\ \A p \in InFlight : mu = p

\* one Create has its call in flight while another waits for the mutex and
\* a third has finished
C1_Witness ==
    \E p, q, r \in Procs :
        /\ pc[p] = "calling" /\ mu = p
        /\ pc[q] = "start"
        /\ pc[r] = "done" /\ depState[r] = r

(***************************************************************************)
(* The handlers of the resources.  A handler is an operator of the request *)
(* (plan, prior state) and of the answers the API gives to its calls; it   *)
(* returns the response: the state, the diagnostics, the API calls it made *)
(* and the objects of the API after them.                                  *)
(***************************************************************************)
Resp(state, errors, warnings, calls, rem) ==
    [state |-> state, errors |-> errors, warnings |-> warnings,
     calls |-> calls, remote |-> rem]

RECURSIVE RunRetry(_, _)
\* retry.RetryContext run to its end on the answers of the API, one attempt
\* a minute
RunRetry(l, answers) ==
    IF l.status = "done" \/ answers = <<>> THEN l
    ELSE RunRetry(RetryStep(l, Head(answers), 1), Tail(answers))

\* the answers the handlers tell apart: success, 400, 404, another status,
\* and an error that is not an APIError but reads as a 404
HandlerAnswers == {NoErr, APIError(StatusBadRequest), APIError(StatusNotFound),
                   APIError(StatusMethodNotAllowed), APIError(500), TextError(TRUE)}

\* the answers a loop can get before its timeout
AnswerSeqs(kind) == [1..LoopBudget(kind) -> HandlerAnswers \ {APIError(StatusMethodNotAllowed)}]

\* the API answers 404 for an object it does not have
Exists(rem, id) == id \in Ids /\ rem[id] # NoObj
Answer(answer, rem, id) ==
    IF answer = NoErr /\ ~Exists(rem, id) THEN APIError(StatusNotFound) ELSE answer
Answers(answers, rem, id) ==
    [i \in DOMAIN answers |-> Answer(answers[i], rem, id)]

Call(api, id, err) == [api |-> api, id |-> id, err |-> err]
\* the calls made by the loop l
LoopCalls(api, id, l, answers) ==
    [i \in 1..l.attempts |-> Call(api, id, answers[i])]

\* a Go interface{} value: nil or a string
GoNil == [nil |-> TRUE, s |-> ""]
GoString(str) == [nil |-> FALSE, s |-> str]

(***************************************************************************)
(* pagerduty_incident_custom_field                                         *)
(***************************************************************************)
validateCustomFieldDataTypeAllowed_NoDatetime ==
    {"string", "integer", "float", "boolean", "url"}

validateCustomFieldDataTypeAllowed ==
    {"string", "integer", "float", "boolean", "url", "datetime"}

validateCustomFieldFieldTypeAllowed ==
    {"single_value", "single_value_fixed", "multi_value", "multi_value_fixed"}

AttributeError(attribute, summary, value) ==
    [attribute |-> attribute, summary |-> summary, value |-> value]

validateCustomFieldDataType(config) ==
    IF ValueString(config.data_type) \notin validateCustomFieldDataTypeAllowed
    THEN {AttributeError("data_type", "Unknown data_type", ValueString(config.data_type))}
    ELSE {}

validateCustomFieldFieldType(config) ==
    IF ValueString(config.field_type) \notin validateCustomFieldFieldTypeAllowed
    THEN {AttributeError("field_type", "Unknown field_type", ValueString(config.field_type))}
    ELSE {}

resourceIncidentCustomField_ValidateConfig(config, prior, rem) ==
    Resp(prior, validateCustomFieldDataType(config) \cup validateCustomFieldFieldType(config),
         {}, <<>>, rem)

buildPagerdutyIncidentCustomFieldDefaultValue(model) ==
    IF IsNull(model.default_value) \/ IsUnknown(model.default_value)
    THEN [value |-> GoNil, errors |-> {}]
    ELSE IF ValueString(model.field_type) = "string"
    THEN [value |-> GoString(ValueString(model.default_value)), errors |-> {}]
    ELSE [value |-> GoNil,
          errors |-> {"A field_type other than string is not supported yet"}]

buildPagerdutyIncidentCustomField(model) ==
    LET dv == buildPagerdutyIncidentCustomFieldDefaultValue(model)
    IN  [obj |-> [id |-> ValueString(model.id),
                  name |-> ValueString(model.name),
                  display_name |-> ValueString(model.display_name),
                  data_type |-> ValueString(model.data_type),
                  field_type |-> ValueString(model.field_type),
                  description |-> ValueString(model.description),
                  default_value |-> dv.value],
         errors |-> dv.errors]

isCustomFieldMultiValue(fieldValue) ==
    ~fieldValue.nil /\ fieldValue.s \in {"multi_value", "multi_value_fixed"}

\* json.Marshal of a string quotes it, "%v" prints it as it is
flattenIncidentCustomFieldDefaultValue(defaultValue) ==
    IF isCustomFieldMultiValue(defaultValue)
    THEN StringValue("\"" \o defaultValue.s \o "\"")
    ELSE StringValue(defaultValue.s)

flattenIncidentCustomField_NoDescription(response) ==
    [id |-> StringValue(response.id),
     name |-> StringValue(response.name),
     display_name |-> StringValue(response.display_name),
     data_type |-> StringValue(response.data_type),
     field_type |-> StringValue(response.field_type),
     description |-> StringNull,
     default_value |-> IF ~response.default_value.nil
                       THEN flattenIncidentCustomFieldDefaultValue(response.default_value)
                       ELSE StringNull]

flattenIncidentCustomField(response) ==
    [id |-> StringValue(response.id),
     name |-> StringValue(response.name),
     display_name |-> StringValue(response.display_name),
     data_type |-> StringValue(response.data_type),
     field_type |-> StringValue(response.field_type),
     description |-> IF response.description # ""
                     THEN StringValue(response.description) ELSE StringNull,
     default_value |-> IF ~response.default_value.nil
                       THEN flattenIncidentCustomFieldDefaultValue(response.default_value)
                       ELSE StringNull]

\* the zero value of resourceIncidentCustomFieldModel
resourceIncidentCustomFieldModel ==
    [id |-> StringNull, name |-> StringNull, display_name |-> StringNull,
     data_type |-> StringNull, field_type |-> StringNull,
     description |-> StringNull, default_value |-> StringNull]

requestGetIncidentCustomField(rem, id, retryNotFound, answers) ==
    LET got == Answers(answers, rem, id)
        l == RunRetry(NewLoop("requestGetIncidentCustomField", retryNotFound), got)
    IN  [model |-> IF l.err = NoErr THEN flattenIncidentCustomField(rem[id])
                   ELSE resourceIncidentCustomFieldModel,
         err |-> l.err,
         calls |-> LoopCalls("GetCustomField", id, l, got)]

resourceIncidentCustomField_Create(model, createAnswers, getAnswers, newId, rem) ==
    LET b == buildPagerdutyIncidentCustomField(model)
        l == RunRetry(NewLoop("resourceIncidentCustomField.Create", FALSE), createAnswers)
        calls == LoopCalls("CreateCustomField", "", l, createAnswers)
    IN  IF l.err # NoErr
        THEN Resp(NoState, b.errors \cup {"Error creating PagerDuty incident custom field"},
                  {}, calls, rem)
        ELSE LET rem1 == [rem EXCEPT ![newId] = [b.obj EXCEPT !.id = newId]]
                 g == requestGetIncidentCustomField(rem1, newId, TRUE, getAnswers)
             IN  IF g.err # NoErr
                 THEN Resp(NoState,
                           b.errors \cup {"Error reading PagerDuty incident custom field"},
                           {}, calls \o g.calls, rem1)
                 ELSE Resp(g.model, b.errors, {}, calls \o g.calls, rem1)

resourceIncidentCustomField_Read(prior, answers, rem) ==
    LET g == requestGetIncidentCustomField(rem, ValueString(prior.id), FALSE, answers)
    IN  IF g.err # NoErr
        THEN IF IsNotFoundError(g.err)
             THEN Resp(NoState, {}, {}, g.calls, rem)
             ELSE Resp(prior, {"Error reading PagerDuty incident custom field"},
                       {}, g.calls, rem)
        ELSE Resp(g.model, {}, {}, g.calls, rem)

resourceIncidentCustomField_Update(model, prior, answer, rem) ==
    LET b == buildPagerdutyIncidentCustomField(model)
        err == Answer(answer, rem, b.obj.id)
        calls == <<Call("UpdateCustomField", b.obj.id, err)>>
    IN  IF err # NoErr
        THEN IF IsNotFoundError(err)
             THEN Resp(NoState, b.errors, {}, calls, rem)
             ELSE Resp(prior, b.errors \cup {"Error updating PagerDuty incident custom field"},
                       {}, calls, rem)
        ELSE Resp(flattenIncidentCustomField(b.obj), b.errors, {}, calls,
                  [rem EXCEPT ![b.obj.id] = b.obj])

resourceIncidentCustomField_Delete(prior, answer, rem) ==
    LET id == ValueString(prior.id)
        err == Answer(answer, rem, id)
        calls == <<Call("DeleteCustomField", id, err)>>
    IN  IF err # NoErr /\ ~IsNotFoundError(err)
        THEN Resp(prior, {"Error deleting PagerDuty incident custom field"}, {}, calls, rem)
        ELSE Resp(NoState, {}, {}, calls,
                  IF err = NoErr THEN [rem EXCEPT ![id] = NoObj] ELSE rem)

\* configurations of a pagerduty_incident_custom_field
IncidentCustomFieldTypes(dataTypes, fieldTypes) ==
    [id : {StringUnknown}, name : {StringValue("n")}, display_name : {StringValue("dn")},
     description : {StringNull, StringValue("d1"), StringValue("d2")},
     default_value : {StringNull, StringValue("multi_value")},
     data_type : dataTypes, field_type : fieldTypes]

\* configurations as they reach ValidateConfig
IncidentCustomFieldConfigs ==
    IncidentCustomFieldTypes(
        {StringValue(t) : t \in {"string", "integer", "float", "boolean", "url",
                                 "datetime", "bogus", ""}} \cup {StringUnknown},
        {StringValue(t) : t \in {"single_value", "single_value_fixed", "multi_value",
                                 "multi_value_fixed", "string", ""}} \cup {StringUnknown})

\* plans of configurations that passed ValidateConfig
IncidentCustomFieldPlans ==
    IncidentCustomFieldTypes({StringValue("string")}, {StringValue("single_value")})

(***************************************************************************)
(* Values shared by the other resources.                                   *)
(***************************************************************************)
\* an object that belongs to another one: a connection to its workspace, an
\* integration to its service, an option to its field
ExistsIn(rem, attr, parent, id) == Exists(rem, id) /\ rem[id][attr] = parent
AnswerIn(answer, rem, attr, parent, id) ==
    IF answer = NoErr /\ ~ExistsIn(rem, attr, parent, id)
    THEN APIError(StatusNotFound) ELSE answer
AnswersIn(answers, rem, attr, parent, id) ==
    [i \in DOMAIN answers |-> AnswerIn(answers[i], rem, attr, parent, id)]

\* a run time panic of the handler: the provider process ends and Terraform
\* reports the crash
Panic(msg) == "panic: runtime error: " \o msg
NoPanic == ""

\* types.List and types.Set
ListNull == [k |-> "null", elems |-> <<>>]
ListValue(elems) == [k |-> "value", elems |-> elems]
SetNull == [k |-> "null", elems |-> {}]
SetValue(elems) == [k |-> "value", elems |-> elems]

\* a Go slice, which may be nil
NilSlice == [nil |-> TRUE, elems |-> <<>>]
Slice(elems) == [nil |-> FALSE, elems |-> elems]

\* a pointer to a pagerduty.APIObject or APIReference, which may be nil
NilReference == [nil |-> TRUE, id |-> "", type |-> ""]
Reference(id, type) == [nil |-> FALSE, id |-> id, type |-> type]

(***************************************************************************)
(* pagerduty_event_orchestration                                           *)
(***************************************************************************)
\* the request never carries the id of the model
buildPagerdutyEventOrchestration(model) ==
    [id |-> "",
     name |-> ValueString(model.name),
     description |-> ValueString(model.description),
     team |-> IF ~IsNull(model.team) /\ ~IsUnknown(model.team)
              THEN Reference(ValueString(model.team), "")
              ELSE NilReference,
     routes |-> 0,
     integrations |-> <<>>]

flattenEventOrchestrationIntegrationParameters(p) ==
    ListValue(<<[routing_key |-> StringValue(p.routing_key),
                 type |-> StringValue(p.type)]>>)

flattenEventOrchestrationIntegrations(list) ==
    ListValue([i \in DOMAIN list |->
                  [id |-> StringValue(list[i].id),
                   label |-> StringNull,
                   parameters |->
                       flattenEventOrchestrationIntegrationParameters(list[i].parameters)]])

flattenEventOrchestration(response) ==
    [id |-> StringValue(response.id),
     name |-> StringValue(response.name),
     description |-> StringValue(response.description),
     team |-> IF ~response.team.nil THEN StringValue(response.team.id) ELSE StringNull,
     routes |-> response.routes,
     integrations |-> flattenEventOrchestrationIntegrations(response.integrations)]

\* the zero value of resourceEventOrchestrationModel
resourceEventOrchestrationModel ==
    [id |-> StringNull, name |-> StringNull, description |-> StringNull,
     team |-> StringNull, routes |-> 0, integrations |-> ListNull]

requestGetEventOrchestration(rem, id, retryNotFound, answers) ==
    LET got == Answers(answers, rem, id)
        l == RunRetry(NewLoop("requestGetEventOrchestration", retryNotFound), got)
    IN  [model |-> IF l.err = NoErr THEN flattenEventOrchestration(rem[id])
                   ELSE resourceEventOrchestrationModel,
         err |-> l.err,
         calls |-> LoopCalls("GetOrchestration", id, l, got)]

\* the orchestration the API makes of a create request: it comes with the
\* integration of the orchestration
CreatedOrchestration(plan, newId) ==
    [plan EXCEPT !.id = newId,
                 !.integrations = <<[id |-> "I1",
                                     parameters |-> [routing_key |-> "R1",
                                                     type |-> "global"]]>>]

resourceEventOrchestration_Create(model, createAnswers, getAnswers, newId, rem) ==
    LET plan == buildPagerdutyEventOrchestration(model)
        l == RunRetry(NewLoop("resourceEventOrchestration.Create", FALSE), createAnswers)
        calls == LoopCalls("CreateOrchestration", "", l, createAnswers)
    IN  IF l.err # NoErr
        THEN Resp(NoState, {"Error creating PagerDuty event orchestration"}, {}, calls, rem)
        ELSE LET rem1 == [rem EXCEPT ![newId] = CreatedOrchestration(plan, newId)]
                 g == requestGetEventOrchestration(rem1, newId, FALSE, getAnswers)
             IN  IF g.err # NoErr
                 THEN Resp(NoState, {"Error reading PagerDuty event orchestration"},
                           {}, calls \o g.calls, rem1)
                 ELSE Resp(g.model, {}, {}, calls \o g.calls, rem1)

\* every error of the helper, a 404 included, is reported
resourceEventOrchestration_Read(prior, answers, rem) ==
    LET g == requestGetEventOrchestration(rem, ValueString(prior.id), FALSE, answers)
    IN  IF g.err # NoErr
        THEN Resp(prior, {"Error reading PagerDuty event orchestration"}, {}, g.calls, rem)
        ELSE Resp(g.model, {}, {}, g.calls, rem)

\* the update is sent for plan.ID, the id of the request that was built
resourceEventOrchestration_Update(model, prior, answer, rem) ==
    LET plan == buildPagerdutyEventOrchestration(model)
        err == Answer(answer, rem, plan.id)
        calls == <<Call("UpdateOrchestration", plan.id, err)>>
    IN  IF err # NoErr
        THEN Resp(prior, {"Error updating PagerDuty event orchestration"}, {}, calls, rem)
        ELSE LET updated == [rem[plan.id] EXCEPT !.name = plan.name,
                                                 !.description = plan.description,
                                                 !.team = plan.team]
             IN  Resp(flattenEventOrchestration(updated), {}, {}, calls,
                      [rem EXCEPT ![plan.id] = updated])

resourceEventOrchestration_Delete_NotFoundFails(prior, answer, rem) ==
    LET id == ValueString(prior.id)
        err == Answer(answer, rem, id)
        calls == <<Call("DeleteOrchestration", id, err)>>
    IN  IF err # NoErr
        THEN Resp(prior, {"Error deleting PagerDuty event orchestration"}, {}, calls, rem)
        ELSE Resp(NoState, {}, {}, calls, [rem EXCEPT ![id] = NoObj])

resourceEventOrchestration_Delete(prior, answer, rem) ==
    LET id == ValueString(prior.id)
        err == Answer(answer, rem, id)
        calls == <<Call("DeleteOrchestration", id, err)>>
    IN  IF err # NoErr /\ ~IsNotFoundError(err)
        THEN Resp(prior, {"Error deleting PagerDuty event orchestration"}, {}, calls, rem)
        ELSE Resp(NoState, {}, {}, calls,
                  IF err = NoErr THEN [rem EXCEPT ![id] = NoObj] ELSE rem)

\* plans of a pagerduty_event_orchestration: description and team are
\* optional and computed, and unknown when the configuration leaves them out
EventOrchestrationPlans ==
    [id : {StringUnknown}, name : {StringValue("n1"), StringValue("n2")},
     description : {StringUnknown, StringValue("d1")},
     team : {StringUnknown, StringValue("T1")},
     routes : {0}, integrations : {ListNull}]

(***************************************************************************)
(* pagerduty_maintenance_window                                            *)
(***************************************************************************)
\* the strings time.Parse accepts as RFC 3339
RFC3339Strings == {"2024-01-01T10:00:00Z", "2024-01-02T10:00:00Z"}

\* timetypes.NewRFC3339Value: the value, or unknown and an error
NewRFC3339Value(value) ==
    IF value \in RFC3339Strings
    THEN [value |-> StringValue(value), errors |-> {}]
    ELSE [value |-> StringUnknown, errors |-> {"Invalid RFC 3339 String Value"}]

\* the order of the list is the order of the set and is not observed
buildMaintenanceWindowServices(set) ==
    IF set.k # "value" THEN [list |-> {}, errors |-> {}]
    ELSE IF \E e \in set.elems : IsNull(e) \/ IsUnknown(e)
    THEN [list |-> {}, errors |-> {"Value Conversion Error"}]
    ELSE [list |-> {Reference(ValueString(e), "service_reference") : e \in set.elems},
          errors |-> {}]

buildPagerdutyMaintenanceWindow(model) ==
    LET services == buildMaintenanceWindowServices(model.services)
    IN  [obj |-> [id |-> "",
                  start_time |-> ValueString(model.start_time),
                  end_time |-> ValueString(model.end_time),
                  services |-> services.list,
                  description |-> ValueString(model.description)],
         errors |-> services.errors]

flattenMaintenanceWindowServices(services) ==
    SetValue({StringValue(s.id) : s \in services})

flattenMaintenanceWindow(window) ==
    LET startTime == NewRFC3339Value(window.start_time)
        endTime == NewRFC3339Value(window.end_time)
    IN  [model |-> [id |-> StringValue(window.id),
                    start_time |-> startTime.value,
                    end_time |-> endTime.value,
                    description |-> StringValue(window.description),
                    services |-> flattenMaintenanceWindowServices(window.services)],
         errors |-> startTime.errors \cup endTime.errors]

\* the zero value of resourceMaintenanceWindowModel
resourceMaintenanceWindowModel ==
    [id |-> StringNull, start_time |-> StringNull, end_time |-> StringNull,
     services |-> SetNull, description |-> StringNull]

\* one call, no retry loop; the API call is made whatever the build reported
resourceMaintenanceWindow_Create(model, answer, newId, rem) ==
    LET b == buildPagerdutyMaintenanceWindow(model)
        calls == <<Call("CreateMaintenanceWindow", "", answer)>>
    IN  IF answer # NoErr
        THEN Resp(NoState, b.errors \cup {"Error creating PagerDuty maintenance window"},
                  {}, calls, rem)
        ELSE LET mw == [b.obj EXCEPT !.id = newId]
                 f == flattenMaintenanceWindow(mw)
             IN  Resp(f.model, b.errors \cup f.errors, {}, calls,
                      [rem EXCEPT ![newId] = mw])

resourceMaintenanceWindow_Read_KeepsDescription(prior, answers, rem) ==
    LET id == ValueString(prior.id)
        got == Answers(answers, rem, id)
        l == RunRetry(NewLoop("resourceMaintenanceWindow.Read", FALSE), got)
        calls == LoopCalls("GetMaintenanceWindow", id, l, got)
    IN  IF l.err # NoErr
        THEN IF IsNotFoundError(l.err)
             THEN Resp(NoState, {}, {}, calls, rem)
             ELSE Resp(prior, {"Error reading PagerDuty maintenance window"}, {}, calls, rem)
        ELSE LET f == flattenMaintenanceWindow(rem[id])
             IN  IF f.errors # {}
                 THEN Resp(prior, f.errors, {}, calls, rem)
                 ELSE Resp([f.model EXCEPT !.description = prior.description],
                           {}, {}, calls, rem)

resourceMaintenanceWindow_Read(prior, answers, rem) ==
    LET id == ValueString(prior.id)
        got == Answers(answers, rem, id)
        l == RunRetry(NewLoop("resourceMaintenanceWindow.Read", FALSE), got)
        calls == LoopCalls("GetMaintenanceWindow", id, l, got)
    IN  IF l.err # NoErr
        THEN IF IsNotFoundError(l.err)
             THEN Resp(NoState, {}, {}, calls, rem)
             ELSE Resp(prior, {"Error reading PagerDuty maintenance window"}, {}, calls, rem)
        ELSE LET f == flattenMaintenanceWindow(rem[id])
             IN  IF f.errors # {}
                 THEN Resp(prior, f.errors, {}, calls, rem)
                 ELSE Resp(f.model, {}, {}, calls, rem)

\* the request has no id, so the id is read from the prior state
resourceMaintenanceWindow_Update(model, prior, answer, rem) ==
    LET b == buildPagerdutyMaintenanceWindow(model)
        id == IF b.obj.id = "" THEN ValueString(prior.id) ELSE b.obj.id
        plan == [b.obj EXCEPT !.id = id]
        err == Answer(answer, rem, id)
        calls == <<Call("UpdateMaintenanceWindow", id, err)>>
    IN  IF err # NoErr
        THEN Resp(prior, b.errors \cup {"Error updating PagerDuty maintenance window"},
                  {}, calls, rem)
        ELSE LET f == flattenMaintenanceWindow(plan)
             IN  Resp(f.model, b.errors \cup f.errors, {}, calls,
                      [rem EXCEPT ![id] = plan])

\* a 405 is taken for a window that is over; a 404 is an error
resourceMaintenanceWindow_Delete(prior, answer, rem) ==
    LET id == ValueString(prior.id)
        err == Answer(answer, rem, id)
        calls == <<Call("DeleteMaintenanceWindow", id, err)>>
    IN  IF err # NoErr /\ ~IsStatusCodeError(err, StatusMethodNotAllowed)
        THEN Resp(prior, {"Error deleting PagerDuty maintenance window"}, {}, calls, rem)
        ELSE Resp(NoState, {}, {}, calls,
                  IF err = NoErr THEN [rem EXCEPT ![id] = NoObj] ELSE rem)

\* resource.ImportStatePassthroughID: only the id is set
resourceMaintenanceWindow_ImportState(id, rem) ==
    Resp([resourceMaintenanceWindowModel EXCEPT !.id = StringValue(id)],
         {}, {}, <<>>, rem)

\* plans of a pagerduty_maintenance_window; the id is computed, the
\* description has a default, a set of services may hold a null
MaintenanceWindowPlans ==
    [id : {StringUnknown},
     start_time : {StringValue("2024-01-01T10:00:00Z")},
     end_time : {StringValue("2024-01-02T10:00:00Z")},
     description : {StringValue("Managed by Terraform"), StringValue("d1")},
     services : {SetValue({StringValue("S1")}),
                 SetValue({StringValue("S1"), StringValue("S2")}),
                 SetValue({StringNull})}]

(***************************************************************************)
(* pagerduty_incident_custom_field_option                                  *)
(***************************************************************************)
buildCustomFieldOption(model) ==
    [id |-> ValueString(model.id),
     data |-> [nil |-> FALSE,
               data_type |-> ValueString(model.data_type),
               value |-> ValueString(model.value)],
     field |-> ValueString(model.field)]

flattenCustomFieldOption_NoField(fieldID, response) ==
    [id |-> StringValue(response.id),
     field |-> StringNull,
     data_type |-> IF ~response.data.nil
                   THEN StringValue(response.data.data_type) ELSE StringNull,
     value |-> IF ~response.data.nil
               THEN StringValue(response.data.value) ELSE StringNull]

flattenCustomFieldOption(fieldID, response) ==
    [id |-> StringValue(response.id),
     field |-> StringValue(fieldID),
     data_type |-> IF ~response.data.nil
                   THEN StringValue(response.data.data_type) ELSE StringNull,
     value |-> IF ~response.data.nil
               THEN StringValue(response.data.value) ELSE StringNull]

resourceIncidentCustomFieldOption_Create(model, answers, newId, rem) ==
    LET plan == buildCustomFieldOption(model)
        l == RunRetry(NewLoop("resourceIncidentCustomFieldOption.Create", FALSE), answers)
        calls == LoopCalls("CreateCustomFieldOption", "", l, answers)
    IN  IF l.err # NoErr
        THEN Resp(NoState, {"Error creating PagerDuty field option"}, {}, calls, rem)
        ELSE LET response == [plan EXCEPT !.id = newId]
             IN  Resp(flattenCustomFieldOption(plan.field, response), {}, {}, calls,
                      [rem EXCEPT ![newId] = response])

\* the options of the field are listed and the option is looked up by id
resourceIncidentCustomFieldOption_Read(prior, answers, rem) ==
    LET id == ValueString(prior.id)
        fieldID == ValueString(prior.field)
        l == RunRetry(NewLoop("resourceIncidentCustomFieldOption.Read", FALSE), answers)
        calls == LoopCalls("ListCustomFieldOptions", fieldID, l, answers)
    IN  IF l.err # NoErr
        THEN IF IsNotFoundError(l.err)
             THEN Resp(NoState, {}, {}, calls, rem)
             ELSE Resp(prior, {"Error reading PagerDuty field option"}, {}, calls, rem)
        ELSE IF ~ExistsIn(rem, "field", fieldID, id)
        THEN Resp(NoState, {}, {"Unable to locate any field option with id"}, calls, rem)
        ELSE Resp(flattenCustomFieldOption(fieldID, rem[id]), {}, {}, calls, rem)

resourceIncidentCustomFieldOption_Update(model, prior, answer, rem) ==
    LET plan == buildCustomFieldOption(model)
        err == AnswerIn(answer, rem, "field", plan.field, plan.id)
        calls == <<Call("UpdateCustomFieldOption", plan.id, err)>>
    IN  IF err # NoErr
        THEN IF IsNotFoundError(err)
             THEN Resp(NoState, {}, {}, calls, rem)
             ELSE Resp(prior, {"Error updating PagerDuty field option"}, {}, calls, rem)
        ELSE Resp(flattenCustomFieldOption(plan.field, plan), {}, {}, calls,
                  [rem EXCEPT ![plan.id] = plan])

resourceIncidentCustomFieldOption_Delete(prior, answer, rem) ==
    LET id == ValueString(prior.id)
        fieldID == ValueString(prior.field)
        err == AnswerIn(answer, rem, "field", fieldID, id)
        calls == <<Call("DeleteCustomFieldOption", id, err)>>
    IN  IF err # NoErr /\ ~IsNotFoundError(err)
        THEN Resp(prior, {"Error deleting PagerDuty field option"}, {}, calls, rem)
        ELSE Resp(NoState, {}, {}, calls,
                  IF err = NoErr THEN [rem EXCEPT ![id] = NoObj] ELSE rem)

\* plans of a pagerduty_incident_custom_field_option
IncidentCustomFieldOptionPlans ==
    [id : {StringUnknown}, data_type : {StringValue("string")},
     value : {StringValue("v1"), StringValue("v2")},
     field : {StringValue("F1"), StringValue("F2")}]

(***************************************************************************)
(* pagerduty_slack_connection                                              *)
(***************************************************************************)
StarWildcardConfig == "*"

flattenStringList(values) ==
    ListValue([i \in DOMAIN values.elems |-> StringValue(values.elems[i])])

\* cfg is a pointer that is read without a check for nil
flattenSlackConnectionConfig(cfg) ==
    IF cfg.nil THEN [list |-> ListNull, panic |-> Panic("nil pointer dereference")]
    ELSE LET urgency == IF ~cfg.urgency.nil THEN StringValue(cfg.urgency.s)
                        ELSE StringNull
             priorities == IF cfg.priorities.nil THEN Slice(<<StarWildcardConfig>>)
                           ELSE cfg.priorities
         IN  [list |-> ListValue(<<[events |-> flattenStringList(cfg.events),
                                    priorities |-> flattenStringList(priorities),
                                    urgency |-> urgency]>>),
              panic |-> NoPanic]

\* the zero value of resourceSlackConnectionModel
resourceSlackConnectionModel ==
    [id |-> StringNull, source_id |-> StringNull, source_name |-> StringNull,
     source_type |-> StringNull, channel_id |-> StringNull,
     channel_name |-> StringNull, workspace_id |-> StringNull,
     notification_type |-> StringNull, config |-> ListNull]

\* source_type and workspace_id are not set from the response
flattenSlackConnection(response) ==
    LET config == flattenSlackConnectionConfig(response.config)
    IN  [model |-> [resourceSlackConnectionModel EXCEPT
                       !.id = StringValue(response.id),
                       !.source_id = StringValue(response.source_id),
                       !.source_name = StringValue(response.source_name),
                       !.channel_id = StringValue(response.channel_id),
                       !.channel_name = StringValue(response.channel_name),
                       !.notification_type = StringValue(response.notification_type),
                       !.config = config.list],
         panic |-> config.panic]

requestGetSlackConnection(rem, workspaceID, id, retryNotFound, answers) ==
    LET got == AnswersIn(answers, rem, "workspace", workspaceID, id)
        l == RunRetry(NewLoop("requestGetSlackConnection", retryNotFound), got)
        f == IF l.err = NoErr THEN flattenSlackConnection(rem[id])
             ELSE [model |-> resourceSlackConnectionModel, panic |-> NoPanic]
    IN  [model |-> f.model, panic |-> f.panic, err |-> l.err,
         calls |-> LoopCalls("GetSlackConnection", id, l, got)]

resourceSlackConnection_Read(prior, answers, rem) ==
    LET g == requestGetSlackConnection(rem, ValueString(prior.workspace_id),
                                       ValueString(prior.id), FALSE, answers)
    IN  IF g.panic # NoPanic
        THEN Resp(prior, {g.panic}, {}, g.calls, rem)
        ELSE IF g.err # NoErr
        THEN IF IsNotFoundError(g.err)
             THEN Resp(NoState, {}, {}, g.calls, rem)
             ELSE Resp(prior, {"Error reading PagerDuty slack connection"}, {}, g.calls, rem)
        ELSE Resp(g.model, {}, {}, g.calls, rem)

\* a nil *pagerduty.SlackConnectionConfig
NilSlackConnectionConfig == [nil |-> TRUE]

\* List.ElementsAs(ctx, target, false): the framework converts into a
\* pointer only, and reports "Value Conversion Error" for any other target
\* and for a null or unknown element read as a Go string
ElementsAs(list, targetIsPointer, elemsAreStrings) ==
    IF ~targetIsPointer
    THEN [err |-> TRUE, slice |-> NilSlice]
    ELSE IF list.k = "null" THEN [err |-> FALSE, slice |-> NilSlice]
    ELSE IF list.k = "unknown" THEN [err |-> TRUE, slice |-> NilSlice]
    ELSE IF elemsAreStrings /\ \E i \in DOMAIN list.elems : list.elems[i].k # "value"
    THEN [err |-> TRUE, slice |-> NilSlice]
    ELSE [err |-> FALSE,
          slice |-> Slice(IF elemsAreStrings
                          THEN [i \in DOMAIN list.elems |-> list.elems[i].v]
                          ELSE list.elems)]

\* target is passed by value to the first ElementsAs
buildPagerdutySlackConnectionConfig(list) ==
    LET target == ElementsAs(list, FALSE, FALSE)
    IN  IF target.err THEN [config |-> NilSlackConnectionConfig, errors |-> {}]
        ELSE IF Len(target.slice.elems) = 0
        THEN [config |-> NilSlackConnectionConfig,
              errors |-> {Panic("index out of range [0] with length 0")}]
        ELSE LET obj == target.slice.elems[1]
                 events == ElementsAs(obj.events, TRUE, TRUE)
                 priorities == ElementsAs(obj.priorities, TRUE, TRUE)
             IN  IF events.err \/ priorities.err
                 THEN [config |-> NilSlackConnectionConfig,
                       errors |-> {"Value Conversion Error"}]
                 ELSE [config |->
                         [nil |-> FALSE,
                          events |-> events.slice,
                          priorities |->
                             IF priorities.slice.elems = <<StarWildcardConfig>>
                             THEN NilSlice ELSE priorities.slice,
                          urgency |-> IF obj.urgency.k = "value"
                                      THEN GoString(obj.urgency.v) ELSE GoNil],
                       errors |-> {}]

buildPagerdutySlackConnection(model) ==
    LET config == buildPagerdutySlackConnectionConfig(model.config)
    IN  [obj |-> [id |-> ValueString(model.id),
                  source_id |-> ValueString(model.source_id),
                  source_name |-> ValueString(model.source_name),
                  source_type |-> ValueString(model.source_type),
                  channel_id |-> ValueString(model.channel_id),
                  channel_name |-> ValueString(model.channel_name),
                  notification_type |-> ValueString(model.notification_type),
                  config |-> config.config],
         errors |-> config.errors]

\* the connection the API stores for a create request: the names of the
\* source and of the channel are its own, and for a request without config
\* it answers with no config or with the config apiConfig of its own
CreatedSlackConnection(plan, workspaceID, newId, apiConfig) ==
    [plan EXCEPT !.id = newId, !.source_name = "svc", !.channel_name = "chan",
                 !.config = IF plan.config.nil THEN apiConfig ELSE plan.config]
        @@ [workspace |-> workspaceID]

resourceSlackConnection_Create(model, createAnswers, getAnswers, newId, apiConfig, rem) ==
    LET workspaceID == ValueString(model.workspace_id)
        plan == buildPagerdutySlackConnection(model)
        l == RunRetry(NewLoop("resourceSlackConnection.Create", FALSE), createAnswers)
        calls == LoopCalls("CreateSlackConnection", "", l, createAnswers)
        created == [rem EXCEPT ![newId] =
                       CreatedSlackConnection(plan.obj, workspaceID, newId, apiConfig)]
        g == requestGetSlackConnection(created, workspaceID, newId, TRUE, getAnswers)
    IN  IF l.err # NoErr
        THEN Resp(NoState,
                  plan.errors \cup {"Error creating PagerDuty slack connection"},
                  {}, calls, rem)
        ELSE IF g.panic # NoPanic
        THEN Resp(NoState, plan.errors \cup {g.panic}, {}, calls \o g.calls, created)
        ELSE IF g.err # NoErr
        THEN Resp(NoState, plan.errors \cup {"Error reading PagerDuty slack connection"},
                  {}, calls \o g.calls, created)
        ELSE Resp(g.model, plan.errors, {}, calls \o g.calls, created)

\* the delete call is made in a loop in which a 404 removes the resource
\* and ends the loop without error
resourceSlackConnection_Delete(prior, answers, rem) ==
    LET id == ValueString(prior.id)
        got == AnswersIn(answers, rem, "workspace", ValueString(prior.workspace_id), id)
        l == RunRetry(NewLoop("resourceSlackConnection.Delete", FALSE), got)
        calls == LoopCalls("DeleteSlackConnection", id, l, got)
    IN  IF l.err # NoErr
        THEN Resp(prior, {"Error deleting PagerDuty slack connection"}, {}, calls, rem)
        ELSE IF l.last # NoErr
        THEN Resp(NoState, {}, {}, calls, rem)
        ELSE Resp(prior, {}, {}, calls, [rem EXCEPT ![id] = NoObj])

\* the parts of the import id are read whatever their number
resourceSlackConnection_ImportState(ids, rem) ==
    LET errors == IF Len(ids) # 2 THEN {"Error importing pagerduty_slack_connection"}
                  ELSE {}
    IN  IF Len(ids) < 2
        THEN Resp(NoState, errors \cup {Panic("index out of range [1] with length 1")},
                  {}, <<>>, rem)
        ELSE Resp([resourceSlackConnectionModel EXCEPT
                      !.id = StringValue(ids[2]),
                      !.workspace_id = StringValue(ids[1])],
                  errors, {}, <<>>, rem)

\* the connections of the workspace W1 that exist before Terraform runs
SlackConnections ==
    [id : {"P1"}, workspace : {"W1"}, source_id : {"S1"}, source_name : {"svc"},
     source_type : {"service_reference"}, channel_id : {"C1"}, channel_name : {"chan"},
     notification_type : {"responder"},
     config : [nil : {FALSE}, events : {Slice(<<"incident.triggered">>)},
               priorities : {NilSlice, Slice(<<"PR1">>)},
               urgency : {GoNil, GoString("high")}]]

\* what the API answers for a connection created without config
SlackConnectionApiConfigs ==
    {NilSlackConnectionConfig,
     [nil |-> FALSE, events |-> Slice(<<>>), priorities |-> NilSlice, urgency |-> GoNil]}

\* plans of a pagerduty_slack_connection
SlackConnectionPlans ==
    [id : {StringUnknown}, source_id : {StringValue("S1")},
     source_name : {StringUnknown}, source_type : {StringValue("service_reference")},
     channel_id : {StringValue("C1")}, channel_name : {StringUnknown},
     workspace_id : {StringValue("W1")}, notification_type : {StringValue("responder")},
     config : {ListValue(<<[events |-> ListValue(<<StringValue("incident.triggered")>>),
                            priorities |-> p, urgency |-> u]>>) :
                  p \in {ListValue(<<StringValue(StarWildcardConfig)>>),
                         ListValue(<<StringValue("PR1")>>),
                         ListValue(<<>>)},
                  u \in {StringNull, StringValue("high")}}]

\* import ids, split on "."
SlackConnectionImportIds ==
    {<<"W1", "P1">>, <<"W1", "P2">>, <<"W2", "P1">>, <<"P1">>, <<"W1", "P1", "x">>}

(***************************************************************************)
(* pagerduty_service_integration                                           *)
(***************************************************************************)
flattenEmailFilters(list) ==
    ListValue([i \in DOMAIN list.elems |->
        [id |-> StringNull,
         subject_mode |-> StringValue(list.elems[i].subject_mode),
         body_mode |-> StringValue(list.elems[i].body_mode),
         from_email_mode |-> StringValue(list.elems[i].from_email_mode),
         subject_regex |-> IF ~list.elems[i].subject_regex.nil
                           THEN StringValue(list.elems[i].subject_regex.s)
                           ELSE StringNull,
         body_regex |-> IF ~list.elems[i].body_regex.nil
                        THEN StringValue(list.elems[i].body_regex.s)
                        ELSE StringNull,
         from_email_regex |-> IF ~list.elems[i].from_email_regex.nil
                              THEN StringValue(list.elems[i].from_email_regex.s)
                              ELSE StringNull]])

\* the zero value of resourceServiceIntegrationModel
resourceServiceIntegrationModel ==
    [id |-> StringNull, name |-> StringNull, service |-> StringNull,
     type |-> StringNull, vendor |-> StringNull, integration_key |-> StringNull,
     integration_email |-> StringNull, email_incident_creation |-> StringNull,
     email_filter_mode |-> StringNull, email_parsing_fallback |-> StringNull,
     email_parser |-> ListNull, email_filter |-> ListNull, html_url |-> StringNull]

\* response.Service.ID and response.Vendor.ID are read before the checks
\* for nil
flattenServiceIntegration(response) ==
    IF response.service.nil \/ response.vendor.nil
    THEN [model |-> resourceServiceIntegrationModel,
          panic |-> Panic("nil pointer dereference")]
    ELSE [model |-> [resourceServiceIntegrationModel EXCEPT
                        !.id = StringValue(response.id),
                        !.name = StringValue(response.name),
                        !.type = StringValue(response.type),
                        !.service = StringValue(response.service.id),
                        !.vendor = StringValue(response.vendor.id),
                        !.html_url = IF response.html_url # ""
                                     THEN StringValue(response.html_url)
                                     ELSE StringNull,
                        !.integration_key = IF response.integration_key # ""
                                            THEN StringValue(response.integration_key)
                                            ELSE StringNull,
                        !.integration_email = IF response.integration_email # ""
                                              THEN StringValue(response.integration_email)
                                              ELSE StringNull,
                        !.email_filter = IF ~response.email_filters.nil
                                         THEN flattenEmailFilters(response.email_filters)
                                         ELSE ListNull],
          panic |-> NoPanic]

requestGetServiceIntegration(rem, serviceID, id, retryNotFound, answers) ==
    LET got == AnswersIn(answers, rem, "service", Reference(serviceID, "service"), id)
        l == RunRetry(NewLoop("requestGetServiceIntegration", retryNotFound), got)
        f == IF l.err = NoErr THEN flattenServiceIntegration(rem[id])
             ELSE [model |-> resourceServiceIntegrationModel, panic |-> NoPanic]
    IN  [model |-> f.model, panic |-> f.panic, err |-> l.err,
         calls |-> LoopCalls("GetIntegration", id, l, got)]

\* the request that is built has no service, and plan.Service.ID is read
\* for the create call
resourceServiceIntegration_Create(model, rem) ==
    Resp(NoState, {Panic("nil pointer dereference")}, {}, <<>>, rem)

\* retryNotFound is true and every error of the helper is reported
resourceServiceIntegration_Read(prior, answers, rem) ==
    LET g == requestGetServiceIntegration(rem, ValueString(prior.service),
                                          ValueString(prior.id), TRUE, answers)
    IN  IF g.panic # NoPanic
        THEN Resp(prior, {g.panic}, {}, g.calls, rem)
        ELSE IF g.err # NoErr
        THEN Resp(prior, {"Error reading PagerDuty service integration"}, {}, g.calls, rem)
        ELSE Resp(g.model, {}, {}, g.calls, rem)

resourceServiceIntegration_Delete(prior, answer, rem) ==
    LET id == ValueString(prior.id)
        serviceID == ValueString(prior.service)
        err == AnswerIn(answer, rem, "service", Reference(serviceID, "service"), id)
        calls == <<Call("DeleteIntegration", id, err)>>
    IN  IF err # NoErr /\ ~IsNotFoundError(err)
        THEN Resp(prior, {"Error deleting PagerDuty service integration"}, {}, calls, rem)
        ELSE Resp(NoState, {}, {}, calls,
                  IF err = NoErr THEN [rem EXCEPT ![id] = NoObj] ELSE rem)

\* the integration is read to check the id, and the state is set whatever
\* the diagnostics
resourceServiceIntegration_ImportState(ids, answers, rem) ==
    LET errors == IF Len(ids) # 2 THEN {"Error importing pagerduty_service_integration"}
                  ELSE {}
    IN  IF Len(ids) < 2
        THEN Resp(NoState, errors \cup {Panic("index out of range [1] with length 1")},
                  {}, <<>>, rem)
        ELSE LET g == requestGetServiceIntegration(rem, ids[1], ids[2], FALSE, answers)
                 state == [resourceServiceIntegrationModel EXCEPT
                              !.id = StringValue(ids[2]),
                              !.service = StringValue(ids[1])]
             IN  IF g.panic # NoPanic
                 THEN Resp(NoState, errors \cup {g.panic}, {}, g.calls, rem)
                 ELSE IF g.err # NoErr
                 THEN Resp(state,
                           errors \cup {"Error importing pagerduty_service_integration"},
                           {}, g.calls, rem)
                 ELSE Resp(state, errors, {}, g.calls, rem)

\* the integrations of the service S1 that exist before Terraform runs
ServiceIntegrations ==
    [id : {"P1"}, name : {"int"}, type : {"generic_events_api_inbound_integration"},
     service : {Reference("S1", "service")},
     vendor : {NilReference, Reference("V1", "vendor")},
     html_url : {"", "https://pd/P1"}, integration_key : {"k1"},
     integration_email : {""}, email_filters : {NilSlice}]

ServiceIntegrationImportIds ==
    {<<"S1", "P1">>, <<"S1", "P2">>, <<"S2", "P1">>, <<"P1">>, <<"S1", "P1", "x">>}

\* the message of the validator of integration_key
IntegrationKeyDeprecated ==
    "Argument is deprecated. Assignments or updates to this attribute are not supported by Service Integrations API"

\* ValidateString of the validator DeprecatedIfPresent(msg): its body is
\* empty, whatever the value of the request
deprecatedIfPresentValidator_ValidateString(msg, configValue, prior, rem) ==
    Resp(prior, {}, {}, <<>>, rem)

\* values of integration_key in a configuration
IntegrationKeyConfigs == {StringNull, StringUnknown, StringValue(""), StringValue("k1")}

ServiceIntegrationPlans ==
    {[resourceServiceIntegrationModel EXCEPT !.id = StringUnknown,
                                             !.service = StringValue("S1"),
                                             !.name = StringValue("int")]}

(***************************************************************************)
(* data source pagerduty_user_contact_method                               *)
(***************************************************************************)
\* the order of the objects in a list of the API
IdSeq == <<"P1", "P2">>

RECURSIVE ListObjects(_, _)
ListObjects(rem, ids) ==
    IF ids = <<>> THEN <<>>
    ELSE IF rem[Head(ids)] # NoObj
    THEN <<rem[Head(ids)]>> \o ListObjects(rem, Tail(ids))
    ELSE ListObjects(rem, Tail(ids))

\* index of the contact method the loop of Read stops at, 0 when it ends
\* without one
RECURSIVE FindContactMethod(_, _, _, _)
FindContactMethod(list, searchLabel, searchType, i) ==
    IF i > Len(list) THEN 0
    ELSE IF list[i].label = searchLabel \/ list[i].type = searchType THEN i
    ELSE FindContactMethod(list, searchLabel, searchType, i + 1)

dataSourceUserContactMethod_Read(config, answers, rem) ==
    LET userID == config.user_id
        searchLabel == ValueString(config.label)
        searchType == ValueString(config.type)
        l == RunRetry(NewLoop("dataSourceUserContactMethod.Read", FALSE), answers)
        calls == LoopCalls("ListUserContactMethods", ValueString(userID), l, answers)
        list == ListObjects(rem, IdSeq)
        i == FindContactMethod(list, searchLabel, searchType, 1)
    IN  IF l.err # NoErr
        THEN IF IsNotFoundError(l.err)
             THEN Resp(NoState, {}, {}, calls, rem)
             ELSE Resp(NoState, {"Error reading PagerDuty user contact method with label"},
                       {}, calls, rem)
        ELSE IF i = 0
        THEN Resp(NoState, {"Unable to locate any user contact method with label"},
                  {}, calls, rem)
        ELSE LET found == list[i]
             IN  Resp([id |-> StringValue(found.id),
                       user_id |-> userID,
                       address |-> StringValue(found.address),
                       blacklisted |-> found.blacklisted,
                       country_code |-> found.country_code,
                       device_type |->
                          IF found.type = "push_notification_contact_method"
                          THEN StringValue(found.device_type) ELSE StringNull,
                       enabled |-> found.enabled,
                       label |-> StringValue(found.label),
                       send_short_email |-> found.send_short_email,
                       type |-> StringValue(found.type)],
                      {}, {}, calls, rem)

\* the contact methods a user can have
ContactMethods(id) ==
    [id : {id}, label : {"Work", "Home"},
     type : {"email_contact_method", "push_notification_contact_method"},
     address : {"a"}, blacklisted : {FALSE}, country_code : {0},
     device_type : {"ios"}, enabled : {TRUE}, send_short_email : {FALSE}]

UserContactMethodLists ==
    {[id \in Ids |-> IF id = "P1" THEN c1 ELSE c2] :
        c1 \in ContactMethods("P1") \cup {NoObj},
        c2 \in ContactMethods("P2") \cup {NoObj}}

UserContactMethodConfigs ==
    [user_id : {StringValue("U1")},
     label : {StringValue("Work"), StringValue("Home")},
     type : {StringValue("email_contact_method"),
             StringValue("push_notification_contact_method")}]

(***************************************************************************)
(* data source pagerduty_service                                           *)
(***************************************************************************)
\* the Limit of every ListServices request
ServiceLimit == 10

\* the page the API answers for an offset: at most limit services of its
\* list, and whether more follow
ListServices(services, limit, offset) ==
    LET last_ == IF offset + limit < Len(services) THEN offset + limit
                 ELSE Len(services)
    IN  [Services |-> SubSeq(services, offset + 1, last_),
         More |-> offset + limit < Len(services)]

\* index of the service the loop over the page breaks at, 0 when it ends
\* without a match
RECURSIVE FindService(_, _, _)
FindService(page, searchName, i) ==
    IF i > Len(page) THEN 0
    ELSE IF page[i].name = searchName THEN i
    ELSE FindService(page, searchName, i + 1)

\* the loop "for more": one retry loop a page, on the answers of the API
\* for that page
RECURSIVE dataSourceService_ReadPages(_, _, _, _, _)
dataSourceService_ReadPages(searchName, services, offset, pageAnswers, calls) ==
    LET answers == Head(pageAnswers)
        l == RunRetry(NewLoop("dataSourceService.Read", FALSE), answers)
        made == calls \o LoopCalls("ListServices", offset, l, answers)
        resp == ListServices(services, ServiceLimit, offset)
        i == FindService(resp.Services, searchName, 1)
    IN  IF l.err # NoErr THEN [found |-> NoObj, err |-> l.err, calls |-> made]
        ELSE IF i # 0 THEN [found |-> resp.Services[i], err |-> NoErr, calls |-> made]
        ELSE IF ~resp.More THEN [found |-> NoObj, err |-> NoErr, calls |-> made]
        ELSE dataSourceService_ReadPages(searchName, services,
                                         offset + Len(resp.Services),
                                         Tail(pageAnswers), made)

\* the services of the model have no teams
flattenServiceData(service) ==
    [id |-> StringValue(service.id),
     name |-> StringValue(service.name),
     type |-> StringValue(service.type),
     auto_resolve_timeout |-> GoNil,
     acknowledgement_timeout |-> GoNil,
     alert_creation |-> StringValue(service.alert_creation),
     description |-> StringValue(service.description),
     escalation_policy |-> StringValue(service.escalation_policy),
     teams |-> ListValue(<<>>)]

\* a Read that takes the first service of the list when none has the name
dataSourceService_Read_AnyService(config, pageAnswers, services) ==
    LET searchName == ValueString(config.name)
        r == dataSourceService_ReadPages(searchName, services, 0, pageAnswers, <<>>)
    IN  IF r.err # NoErr
        THEN Resp(NoState, {"Error searching Service"}, {}, r.calls, services)
        ELSE IF r.found = NoObj
        THEN IF services = <<>>
             THEN Resp(NoState, {"Unable to locate any service with the name"}, {},
                       r.calls, services)
             ELSE Resp(flattenServiceData(services[1]), {}, {}, r.calls, services)
        ELSE Resp(flattenServiceData(r.found), {}, {}, r.calls, services)

dataSourceService_Read(config, pageAnswers, services) ==
    LET searchName == ValueString(config.name)
        r == dataSourceService_ReadPages(searchName, services, 0, pageAnswers, <<>>)
    IN  IF r.err # NoErr
        THEN Resp(NoState, {"Error searching Service"}, {}, r.calls, services)
        ELSE IF r.found = NoObj
        THEN Resp(NoState, {"Unable to locate any service with the name"}, {},
                  r.calls, services)
        ELSE Resp(flattenServiceData(r.found), {}, {}, r.calls, services)

Service(i, name) ==
    [id |-> i, name |-> name, type |-> "service", alert_creation |-> "create_incidents",
     description |-> "", escalation_policy |-> "EP1"]

\* the lists of services the API holds for the query "svc": the services
\* named "svc" are at some of the places around the ends of the pages
ServiceLists ==
    {[i \in 1..n |-> Service(i, IF i \in M THEN "svc" ELSE "svc-2")] :
        n \in {0, 1, ServiceLimit, ServiceLimit + 1, MaxServices},
        M \in SUBSET {1, ServiceLimit, ServiceLimit + 1, ServiceLimit + 2, MaxServices}}

ServiceConfigs == [name : {StringValue("svc")}]

\* the answers of the API to the requests for a page, for every page
ServicePageAnswers ==
    [1..((MaxServices \div ServiceLimit) + 1) ->
        [1..LoopBudget("dataSourceService.Read") ->
            {NoErr, APIError(StatusBadRequest), APIError(500)}]]

(***************************************************************************)
(* pagerduty_service_dependency: Read, Delete and ImportState              *)
(***************************************************************************)
convertServiceDependencyType(s) ==
    CASE s = "business_service_reference" -> "business_service"
      [] s = "technical_service_reference" -> "service"
      [] OTHER -> s

\* obj.As into Go strings: a null or unknown attribute leaves the empty
\* string, and the diagnostics of As are dropped
buildServiceObj(obj) ==
    Reference(ValueString(obj.id), ValueString(obj.type))

buildServiceDependencyStruct(model) ==
    LET dependency == model.dependency.elems
    IN  IF Len(dependency) < 1
        THEN [obj |-> NoObj, errors |-> {"dependency length < 1"}]
        ELSE LET noSup == Len(dependency[1].supporting_service.elems) < 1
                 noDep == Len(dependency[1].dependent_service.elems) < 1
             IN  IF noSup \/ noDep
                 THEN [obj |-> NoObj,
                       errors |->
                          (IF noSup THEN {"supporting service not found for dependency"}
                           ELSE {}) \cup
                          (IF noDep THEN {"dependent service not found for dependency"}
                           ELSE {})]
                 ELSE [obj |->
                          [id |-> ValueString(model.id),
                           type |-> ValueString(dependency[1].type),
                           supporting_service |->
                              buildServiceObj(dependency[1].supporting_service.elems[1]),
                           dependent_service |->
                              buildServiceObj(dependency[1].dependent_service.elems[1])],
                       errors |-> {}]

flattenServiceReference(src) ==
    IF src.nil THEN [list |-> ListNull, errors |-> {"service reference is null"}]
    ELSE [list |-> ListValue(<<[id |-> StringValue(src.id),
                                type |-> StringValue(convertServiceDependencyType(src.type))]>>),
          errors |-> {}]

\* the zero value of resourceServiceDependencyModel
resourceServiceDependencyModel == [id |-> StringNull, dependency |-> ListNull]

\* list holds pointers: NoObj is the nil pointer, which is read like any
\* other item
flattenServiceDependency(list) ==
    IF Len(list) < 1
    THEN [model |-> resourceServiceDependencyModel,
          errors |-> {"Pagerduty did not responded with any dependency"}]
    ELSE LET item == list[1]
         IN  IF item = NoObj
             THEN [model |-> resourceServiceDependencyModel,
                   errors |-> {Panic("nil pointer dereference")}]
             ELSE LET supportingService == flattenServiceReference(item.supporting_service)
                      dependentService == flattenServiceReference(item.dependent_service)
                  IN  IF supportingService.errors # {}
                      THEN [model |-> resourceServiceDependencyModel,
                            errors |-> supportingService.errors]
                      ELSE IF dependentService.errors # {}
                      THEN [model |-> resourceServiceDependencyModel,
                            errors |-> dependentService.errors]
                      ELSE [model |->
                              [id |-> StringValue(item.id),
                               dependency |->
                                  ListValue(<<[type |-> StringValue(item.type),
                                               supporting_service |-> supportingService.list,
                                               dependent_service |-> dependentService.list]>>)],
                            errors |-> {}]

ServiceTypes == {"service", "technical_service", "technical_service_reference",
                 "business_service", "business_service_reference"}

\* the relationships the API lists for the service depId
RECURSIVE ListRelationships(_, _, _)
ListRelationships(rem, depId, ids) ==
    IF ids = <<>> THEN <<>>
    ELSE LET rel == rem[Head(ids)]
             rest == ListRelationships(rem, depId, Tail(ids))
         IN  IF rel # NoObj /\ (rel.dependent_service.id = depId
                                \/ rel.supporting_service.id = depId)
             THEN <<rel>> \o rest ELSE rest

RECURSIVE FindRelationship(_, _, _)
FindRelationship(list, id, i) ==
    IF i > Len(list) THEN NoObj
    ELSE IF list[i].id = id THEN list[i]
    ELSE FindRelationship(list, id, i + 1)

\* for a resource type it does not know the function of the loop returns a
\* retryable error without any call
requestGetServiceDependency(rem, id, depId, rt, answers) ==
    LET known == rt \in ServiceTypes
        got == IF known THEN answers ELSE [i \in DOMAIN answers |-> TextError(FALSE)]
        l == RunRetry(NewLoop("requestGetServiceDependency", FALSE), got)
        calls == IF known THEN LoopCalls("ListServiceDependencies", depId, l, got)
                 ELSE <<>>
    IN  [found |-> IF l.err = NoErr
                   THEN FindRelationship(ListRelationships(rem, depId, IdSeq), id, 1)
                   ELSE NoObj,
         errors |-> IF l.err # NoErr THEN {"Error listing service dependencies"} ELSE {},
         calls |-> calls]

\* a Read that reports an error for a relationship that is not listed
resourceServiceDependency_Read_NotFoundFails(prior, answers, rem) ==
    LET b == buildServiceDependencyStruct(prior)
        g == requestGetServiceDependency(rem, b.obj.id, b.obj.dependent_service.id,
                                         b.obj.dependent_service.type, answers)
        f == flattenServiceDependency(<<g.found>>)
    IN  IF b.errors # {} THEN Resp(prior, b.errors, {}, <<>>, rem)
        ELSE IF g.errors # {} THEN Resp(prior, g.errors, {}, g.calls, rem)
        ELSE IF g.found = NoObj
        THEN Resp(prior, {"Error listing service dependencies"}, {}, g.calls, rem)
        ELSE IF f.errors # {} THEN Resp(prior, f.errors, {}, g.calls, rem)
        ELSE Resp(f.model, {}, {}, g.calls, rem)

resourceServiceDependency_Read(prior, answers, rem) ==
    LET b == buildServiceDependencyStruct(prior)
        g == requestGetServiceDependency(rem, b.obj.id, b.obj.dependent_service.id,
                                         b.obj.dependent_service.type, answers)
        f == flattenServiceDependency(<<g.found>>)
    IN  IF b.errors # {} THEN Resp(prior, b.errors, {}, <<>>, rem)
        ELSE IF g.errors # {} THEN Resp(prior, g.errors, {}, g.calls, rem)
        ELSE IF g.found = NoObj THEN Resp(NoState, {}, {}, g.calls, rem)
        ELSE IF f.errors # {} THEN Resp(prior, f.errors, {}, g.calls, rem)
        ELSE Resp(f.model, {}, {}, g.calls, rem)

\* the error of the disassociate call is added to the diagnostics that
\* requestGetServiceDependency returned, not to those of the response
resourceServiceDependency_Delete(prior, answers, answer, rem) ==
    LET id == ValueString(prior.id)
        dependent == prior.dependency.elems[1].dependent_service.elems[1]
        depId == ValueString(dependent.id)
        rt == ValueString(dependent.type)
        g == requestGetServiceDependency(rem, id, depId, rt, answers)
        calls == g.calls \o <<Call("DisassociateServiceDependencies", id, answer)>>
    IN  IF g.errors # {} THEN Resp(prior, g.errors, {}, g.calls, rem)
        ELSE IF g.found = NoObj THEN Resp(NoState, {}, {}, g.calls, rem)
        ELSE IF answer # NoErr THEN Resp(prior, {}, {}, calls, rem)
        ELSE Resp(NoState, {}, {}, calls, [rem EXCEPT ![id] = NoObj])

\* the parts of the import id are read whatever their number, and the
\* relationship is flattened whether or not it was found
resourceServiceDependency_ImportState(ids, answers, rem) ==
    LET errors == IF Len(ids) # 3 THEN {"Error importing pagerduty_service_dependency"}
                  ELSE {}
    IN  IF Len(ids) < 3
        THEN Resp(NoState,
                  errors \cup {Panic("index out of range [1] with length 1")},
                  {}, <<>>, rem)
        ELSE LET g == requestGetServiceDependency(rem, ids[3], ids[1], ids[2], answers)
                 f == flattenServiceDependency(<<g.found>>)
             IN  IF g.errors # {}
                 THEN Resp(NoState, errors \cup g.errors, {}, g.calls, rem)
                 ELSE IF f.errors # {}
                 THEN Resp(NoState, errors \cup f.errors, {}, g.calls, rem)
                 ELSE Resp(f.model, errors, {}, g.calls, rem)

\* the relationships of the business service B1 that exist before
\* Terraform runs
ServiceDependencies(id) ==
    [id : {id}, type : {"service_dependency"},
     supporting_service : {NilReference, Reference("S1", "technical_service_reference")},
     dependent_service : {Reference("B1", "business_service_reference")}]

ServiceDependencyLists ==
    {[id \in Ids |-> IF id = "P1" THEN d1 ELSE d2] :
        d1 \in ServiceDependencies("P1"),
        d2 \in ServiceDependencies("P2") \cup {NoObj}}

ServiceDependencyImportIds ==
    {<<"B1", "business_service", "P1">>, <<"B1", "business_service", "P2">>,
     <<"B2", "business_service", "P1">>, <<"B1", "team", "P1">>,
     <<"P1">>, <<"B1", "business_service", "P1", "x">>}

\* the answers the loop of requestGetServiceDependency tells apart
ServiceDependencyAnswerSeqs ==
    [1..LoopBudget("requestGetServiceDependency") ->
        {NoErr, APIError(StatusNotFound), APIError(500)}]

(***************************************************************************)
(* The operations of the framework on the resource instance.               *)
(***************************************************************************)
FreeIds(rem) == {id \in Ids : rem[id] = NoObj}

\* the framework calls one handler at a time for the instance; the response
\* of the handler becomes the state of the address it served
Apply(op, slot, input, res) ==
    /\ last = NoOp
    /\ tfstate' = IF slot = "managed" THEN res.state ELSE tfstate
    /\ imported' = IF slot = "imported" THEN res.state ELSE imported
    /\ remote' = res.remote
    /\ diags' = [errors |-> res.errors, warnings |-> res.warnings]
    /\ last' = [op |-> op, slot |-> slot, calls |-> res.calls, input |-> input]
    /\ UNCHANGED <<rtype, loop, depVars, cfgVars>>

\* after a Delete without error diagnostics the framework removes the state
FrameworkDelete(res) ==
    [res EXCEPT !.state = IF res.errors = {} THEN NoState ELSE res.state]

\* the id of the response of a create call that succeeded
CreatedId(res, newId) ==
    IF \E i \in DOMAIN res.calls : res.calls[i].err = NoErr /\ res.calls[i].id = ""
    THEN newId ELSE createdId

ValidateConfigIncidentCustomField ==
    /\ rtype = "pagerduty_incident_custom_field"
    /\ \E config \in IncidentCustomFieldConfigs :
          Apply("ValidateConfig", "managed", config,
                resourceIncidentCustomField_ValidateConfig(config, tfstate, remote))
    /\ UNCHANGED createdId

CreateIncidentCustomField ==
    /\ rtype = "pagerduty_incident_custom_field"
    /\ tfstate = NoState
    /\ \E plan \in IncidentCustomFieldPlans, newId \in FreeIds(remote),
          createAnswers \in AnswerSeqs("resourceIncidentCustomField.Create"),
          getAnswers \in AnswerSeqs("requestGetIncidentCustomField") :
          LET res == resourceIncidentCustomField_Create(plan, createAnswers, getAnswers,
                                                        newId, remote)
          IN  /\ Apply("Create", "managed", plan, res)
              /\ createdId' = CreatedId(res, newId)

ReadIncidentCustomField ==
    /\ rtype = "pagerduty_incident_custom_field"
    /\ tfstate # NoState
    /\ \E answers \in AnswerSeqs("requestGetIncidentCustomField") :
          Apply("Read", "managed", tfstate,
                resourceIncidentCustomField_Read(tfstate, answers, remote))
    /\ UNCHANGED createdId

\* the plan of an Update has the id of the prior state (UseStateForUnknown)
UpdateIncidentCustomField ==
    /\ rtype = "pagerduty_incident_custom_field"
    /\ tfstate # NoState
    /\ \E config \in IncidentCustomFieldPlans, answer \in HandlerAnswers :
          LET plan == [config EXCEPT !.id = tfstate.id]
          IN  Apply("Update", "managed", plan,
                    resourceIncidentCustomField_Update(plan, tfstate, answer, remote))
    /\ UNCHANGED createdId

DeleteIncidentCustomField ==
    /\ rtype = "pagerduty_incident_custom_field"
    /\ tfstate # NoState
    /\ \E answer \in HandlerAnswers :
          Apply("Delete", "managed", tfstate,
                FrameworkDelete(resourceIncidentCustomField_Delete(tfstate, answer, remote)))
    /\ UNCHANGED createdId

\* a data source is read from an empty state
ReadUserContactMethod ==
    /\ rtype = "pagerduty_user_contact_method"
    /\ \E config \in UserContactMethodConfigs,
          answers \in AnswerSeqs("dataSourceUserContactMethod.Read") :
          Apply("Read", "managed", config,
                dataSourceUserContactMethod_Read(config, answers, remote))
    /\ UNCHANGED createdId

ReadService ==
    /\ rtype = "pagerduty_service"
    /\ \E config \in ServiceConfigs, pageAnswers \in ServicePageAnswers :
          Apply("Read", "managed", config,
                dataSourceService_Read(config, pageAnswers, remote))
    /\ UNCHANGED createdId

ReadServiceDependency ==
    /\ rtype = "pagerduty_service_dependency"
    /\ tfstate # NoState
    /\ \E answers \in ServiceDependencyAnswerSeqs :
          Apply("Read", "managed", tfstate,
                resourceServiceDependency_Read(tfstate, answers, remote))
    /\ UNCHANGED createdId

DeleteServiceDependency ==
    /\ rtype = "pagerduty_service_dependency"
    /\ tfstate # NoState
    /\ \E answers \in ServiceDependencyAnswerSeqs, answer \in HandlerAnswers :
          Apply("Delete", "managed", tfstate,
                FrameworkDelete(resourceServiceDependency_Delete(tfstate, answers, answer,
                                                                 remote)))
    /\ UNCHANGED createdId

\* a relationship is removed outside Terraform, between two operations
DisassociateOutside ==
    /\ rtype = "pagerduty_service_dependency"
    /\ last = NoOp
    /\ \E id \in Ids :
          /\ remote[id] # NoObj
          /\ remote' = [remote EXCEPT ![id] = NoObj]
    /\ UNCHANGED <<rtype, tfstate, imported, diags, last, createdId, loop, depVars,
                   cfgVars>>

\* an ImportState that reports an error imports nothing
FrameworkImport(res) ==
    [res EXCEPT !.state = IF res.errors = {} THEN res.state ELSE NoState]

CreateEventOrchestration ==
    /\ rtype = "pagerduty_event_orchestration"
    /\ tfstate = NoState
    /\ \E plan \in EventOrchestrationPlans, newId \in FreeIds(remote),
          createAnswers \in AnswerSeqs("resourceEventOrchestration.Create"),
          getAnswers \in AnswerSeqs("requestGetEventOrchestration") :
          LET res == resourceEventOrchestration_Create(plan, createAnswers, getAnswers,
                                                       newId, remote)
          IN  /\ Apply("Create", "managed", plan, res)
              /\ createdId' = CreatedId(res, newId)

ReadEventOrchestration ==
    /\ rtype = "pagerduty_event_orchestration"
    /\ tfstate # NoState
    /\ \E answers \in AnswerSeqs("requestGetEventOrchestration") :
          Apply("Read", "managed", tfstate,
                resourceEventOrchestration_Read(tfstate, answers, remote))
    /\ UNCHANGED createdId

\* the plan of an Update has the id of the prior state (UseStateForUnknown)
UpdateEventOrchestration ==
    /\ rtype = "pagerduty_event_orchestration"
    /\ tfstate # NoState
    /\ \E config \in EventOrchestrationPlans, answer \in HandlerAnswers :
          LET plan == [config EXCEPT !.id = tfstate.id,
                                     !.routes = tfstate.routes,
                                     !.integrations = tfstate.integrations]
          IN  Apply("Update", "managed", plan,
                    resourceEventOrchestration_Update(plan, tfstate, answer, remote))
    /\ UNCHANGED createdId

DeleteEventOrchestration ==
    /\ rtype = "pagerduty_event_orchestration"
    /\ tfstate # NoState
    /\ \E answer \in HandlerAnswers :
          Apply("Delete", "managed", tfstate,
                FrameworkDelete(resourceEventOrchestration_Delete(tfstate, answer, remote)))
    /\ UNCHANGED createdId

CreateMaintenanceWindow ==
    /\ rtype = "pagerduty_maintenance_window"
    /\ tfstate = NoState
    /\ \E plan \in MaintenanceWindowPlans, newId \in FreeIds(remote),
          answer \in HandlerAnswers :
          LET res == resourceMaintenanceWindow_Create(plan, answer, newId, remote)
          IN  /\ Apply("Create", "managed", plan, res)
              /\ createdId' = CreatedId(res, newId)

ReadMaintenanceWindow ==
    /\ rtype = "pagerduty_maintenance_window"
    /\ tfstate # NoState
    /\ \E answers \in AnswerSeqs("resourceMaintenanceWindow.Read") :
          Apply("Read", "managed", tfstate,
                resourceMaintenanceWindow_Read(tfstate, answers, remote))
    /\ UNCHANGED createdId

\* the Read that follows terraform import, on the window that was imported
ReadImportedMaintenanceWindow ==
    /\ rtype = "pagerduty_maintenance_window"
    /\ imported # NoState
    /\ \E answers \in AnswerSeqs("resourceMaintenanceWindow.Read") :
          Apply("Read", "imported", imported,
                resourceMaintenanceWindow_Read(imported, answers, remote))
    /\ UNCHANGED createdId

UpdateMaintenanceWindow ==
    /\ rtype = "pagerduty_maintenance_window"
    /\ tfstate # NoState
    /\ \E plan \in MaintenanceWindowPlans, answer \in HandlerAnswers :
          Apply("Update", "managed", plan,
                resourceMaintenanceWindow_Update(plan, tfstate, answer, remote))
    /\ UNCHANGED createdId

DeleteMaintenanceWindow ==
    /\ rtype = "pagerduty_maintenance_window"
    /\ tfstate # NoState
    /\ \E answer \in HandlerAnswers :
          Apply("Delete", "managed", tfstate,
                FrameworkDelete(resourceMaintenanceWindow_Delete(tfstate, answer, remote)))
    /\ UNCHANGED createdId

\* terraform import of a window under a second address
ImportStateMaintenanceWindow ==
    /\ rtype = "pagerduty_maintenance_window"
    /\ \E id \in Ids :
          Apply("ImportState", "imported", id,
                FrameworkImport(resourceMaintenanceWindow_ImportState(id, remote)))
    /\ UNCHANGED createdId

CreateIncidentCustomFieldOption ==
    /\ rtype = "pagerduty_incident_custom_field_option"
    /\ tfstate = NoState
    /\ \E plan \in IncidentCustomFieldOptionPlans, newId \in FreeIds(remote),
          answers \in AnswerSeqs("resourceIncidentCustomFieldOption.Create") :
          LET res == resourceIncidentCustomFieldOption_Create(plan, answers, newId, remote)
          IN  /\ Apply("Create", "managed", plan, res)
              /\ createdId' = CreatedId(res, newId)

\* the list the API returns is the list at the time of the Read: the option
\* may have been deleted outside Terraform since the last operation
ReadIncidentCustomFieldOption ==
    /\ rtype = "pagerduty_incident_custom_field_option"
    /\ tfstate # NoState
    /\ \E answers \in AnswerSeqs("resourceIncidentCustomFieldOption.Read"),
          rem \in {remote, [id \in Ids |-> IF id = ValueString(tfstate.id)
                                           THEN NoObj ELSE remote[id]]} :
          Apply("Read", "managed", tfstate,
                resourceIncidentCustomFieldOption_Read(tfstate, answers, rem))
    /\ UNCHANGED createdId

UpdateIncidentCustomFieldOption ==
    /\ rtype = "pagerduty_incident_custom_field_option"
    /\ tfstate # NoState
    /\ \E config \in IncidentCustomFieldOptionPlans, answer \in HandlerAnswers :
          LET plan == [config EXCEPT !.id = tfstate.id]
          IN  Apply("Update", "managed", plan,
                    resourceIncidentCustomFieldOption_Update(plan, tfstate, answer, remote))
    /\ UNCHANGED createdId

DeleteIncidentCustomFieldOption ==
    /\ rtype = "pagerduty_incident_custom_field_option"
    /\ tfstate # NoState
    /\ \E answer \in HandlerAnswers :
          Apply("Delete", "managed", tfstate,
                FrameworkDelete(resourceIncidentCustomFieldOption_Delete(tfstate, answer,
                                                                        remote)))
    /\ UNCHANGED createdId

ImportStateSlackConnection ==
    /\ rtype = "pagerduty_slack_connection"
    /\ tfstate = NoState
    /\ \E ids \in SlackConnectionImportIds :
          Apply("ImportState", "managed", ids,
                FrameworkImport(resourceSlackConnection_ImportState(ids, remote)))
    /\ UNCHANGED createdId

CreateSlackConnection ==
    /\ rtype = "pagerduty_slack_connection"
    /\ tfstate = NoState
    /\ \E plan \in SlackConnectionPlans, newId \in FreeIds(remote),
          createAnswers \in AnswerSeqs("resourceSlackConnection.Create"),
          getAnswers \in AnswerSeqs("requestGetSlackConnection"),
          apiConfig \in SlackConnectionApiConfigs :
          LET res == resourceSlackConnection_Create(plan, createAnswers, getAnswers,
                                                    newId, apiConfig, remote)
          IN  /\ Apply("Create", "managed", plan, res)
              /\ createdId' = CreatedId(res, newId)

ReadSlackConnection ==
    /\ rtype = "pagerduty_slack_connection"
    /\ tfstate # NoState
    /\ \E answers \in AnswerSeqs("requestGetSlackConnection") :
          Apply("Read", "managed", tfstate,
                resourceSlackConnection_Read(tfstate, answers, remote))
    /\ UNCHANGED createdId

DeleteSlackConnection ==
    /\ rtype = "pagerduty_slack_connection"
    /\ tfstate # NoState
    /\ \E answers \in AnswerSeqs("resourceSlackConnection.Delete") :
          Apply("Delete", "managed", tfstate,
                FrameworkDelete(resourceSlackConnection_Delete(tfstate, answers, remote)))
    /\ UNCHANGED createdId

ImportStateServiceIntegration ==
    /\ rtype = "pagerduty_service_integration"
    /\ tfstate = NoState
    /\ \E ids \in ServiceIntegrationImportIds,
          answers \in AnswerSeqs("requestGetServiceIntegration") :
          Apply("ImportState", "managed", ids,
                FrameworkImport(resourceServiceIntegration_ImportState(ids, answers,
                                                                       remote)))
    /\ UNCHANGED createdId

\* the framework runs the validators of integration_key on a configuration
ValidateIntegrationKey ==
    /\ rtype = "pagerduty_service_integration"
    /\ \E configValue \in IntegrationKeyConfigs :
          Apply("ValidateString", "managed", configValue,
                deprecatedIfPresentValidator_ValidateString(
                    IntegrationKeyDeprecated, configValue, tfstate, remote))
    /\ UNCHANGED createdId

CreateServiceIntegration ==
    /\ rtype = "pagerduty_service_integration"
    /\ tfstate = NoState
    /\ \E plan \in ServiceIntegrationPlans :
          Apply("Create", "managed", plan,
                resourceServiceIntegration_Create(plan, remote))
    /\ UNCHANGED createdId

ReadServiceIntegration ==
    /\ rtype = "pagerduty_service_integration"
    /\ tfstate # NoState
    /\ \E answers \in AnswerSeqs("requestGetServiceIntegration") :
          Apply("Read", "managed", tfstate,
                resourceServiceIntegration_Read(tfstate, answers, remote))
    /\ UNCHANGED createdId

DeleteServiceIntegration ==
    /\ rtype = "pagerduty_service_integration"
    /\ tfstate # NoState
    /\ \E answer \in HandlerAnswers :
          Apply("Delete", "managed", tfstate,
                FrameworkDelete(resourceServiceIntegration_Delete(tfstate, answer, remote)))
    /\ UNCHANGED createdId

\* the response is returned to Terraform and the next operation can start
ImportStateServiceDependency ==
    /\ rtype = "pagerduty_service_dependency"
    /\ tfstate = NoState
    /\ \E ids \in ServiceDependencyImportIds, answers \in ServiceDependencyAnswerSeqs :
          Apply("ImportState", "managed", ids,
                FrameworkImport(resourceServiceDependency_ImportState(ids, answers,
                                                                      remote)))
    /\ UNCHANGED createdId

Respond ==
    /\ last # NoOp
    /\ last' = NoOp
    /\ diags' = NoDiags
    /\ UNCHANGED <<rtype, tfstate, imported, remote, createdId, loop, depVars, cfgVars>>

ResourceTypes == {"pagerduty_incident_custom_field",
                  "pagerduty_incident_custom_field_option",
                  "pagerduty_event_orchestration",
                  "pagerduty_maintenance_window",
                  "pagerduty_slack_connection",
                  "pagerduty_service_integration",
                  "pagerduty_user_contact_method",
                  "pagerduty_service",
                  "pagerduty_service_dependency"}

\* the objects of the API before Terraform runs
InitialRemotes(t) ==
    CASE t = "pagerduty_slack_connection" ->
            {[id \in Ids |-> IF id = "P1" THEN c ELSE NoObj] : c \in SlackConnections}
      [] t = "pagerduty_service_integration" ->
            {[id \in Ids |-> IF id = "P1" THEN i ELSE NoObj] : i \in ServiceIntegrations}
      [] t = "pagerduty_user_contact_method" -> UserContactMethodLists
      [] t = "pagerduty_service" -> ServiceLists
      [] t = "pagerduty_service_dependency" -> ServiceDependencyLists
      [] OTHER -> {[id \in Ids |-> NoObj]}

Init ==
    /\ LoopInit
    /\ DepIdle
    /\ CfgIdle
    /\ rtype \in ResourceTypes
    /\ tfstate = NoState
    /\ imported = NoState
    /\ remote \in InitialRemotes(rtype)
    /\ diags = NoDiags
    /\ last = NoOp
    /\ createdId = ""

Next ==
    \/ ValidateConfigIncidentCustomField
    \/ CreateIncidentCustomField
    \/ ReadIncidentCustomField
    \/ UpdateIncidentCustomField
    \/ DeleteIncidentCustomField
    \/ CreateEventOrchestration
    \/ ReadEventOrchestration
    \/ UpdateEventOrchestration
    \/ DeleteEventOrchestration
    \/ CreateMaintenanceWindow
    \/ ReadMaintenanceWindow
    \/ ReadImportedMaintenanceWindow
    \/ UpdateMaintenanceWindow
    \/ DeleteMaintenanceWindow
    \/ ImportStateMaintenanceWindow
    \/ CreateIncidentCustomFieldOption
    \/ ReadIncidentCustomFieldOption
    \/ UpdateIncidentCustomFieldOption
    \/ DeleteIncidentCustomFieldOption
    \/ ImportStateSlackConnection
    \/ CreateSlackConnection
    \/ ReadSlackConnection
    \/ DeleteSlackConnection
    \/ ImportStateServiceIntegration
    \/ ValidateIntegrationKey
    \/ ReadUserContactMethod
    \/ ReadService
    \/ ImportStateServiceDependency
    \/ ReadServiceDependency
    \/ DeleteServiceDependency
    \/ DisassociateOutside
    \/ CreateServiceIntegration
    \/ ReadServiceIntegration
    \/ DeleteServiceIntegration
    \/ Respond

Spec == Init /\ [][Next]_vars

(***************************************************************************)
(* Properties of pagerduty_incident_custom_field.                          *)
(***************************************************************************)

\* C7: ValidateConfig of pagerduty_incident_custom_field reports no error
\* exactly when data_type and field_type are among the allowed values;
\* otherwise it reports 'Unknown data_type <value>' or 'Unknown field_type
\* <value>' on the attribute, and it makes no API call.
C7_ValidateConfig ==
    (rtype = "pagerduty_incident_custom_field" /\ last.op = "ValidateConfig") =>
        LET config == last.input
            dataTypeOk == config.data_type \in
                {StringValue(t) : t \in {"string", "integer", "float", "boolean",
                                         "url", "datetime"}}
            fieldTypeOk == config.field_type \in
                {StringValue(t) : t \in {"single_value", "single_value_fixed",
                                         "multi_value", "multi_value_fixed"}}
            dataTypeError == AttributeError("data_type", "Unknown data_type",
                                            ValueString(config.data_type))
            fieldTypeError == AttributeError("field_type", "Unknown field_type",
                                             ValueString(config.field_type))
        IN  /\ (diags.errors = {}) <=> (dataTypeOk /\ fieldTypeOk)
            /\ (dataTypeError \in diags.errors) <=> ~dataTypeOk
            /\ (fieldTypeError \in diags.errors) <=> ~fieldTypeOk
            /\ diags.errors \subseteq {dataTypeError, fieldTypeError}
            /\ last.calls = <<>>

\* a configuration with a data_type that is not known is rejected
C7_Witness ==
    /\ rtype = "pagerduty_incident_custom_field"
    /\ last.op = "ValidateConfig"
    /\ last.input.data_type = StringValue("bogus")
    /\ last.input.field_type = StringValue("multi_value")
    /\ diags.errors = {AttributeError("data_type", "Unknown data_type", "bogus")}

\* C8: the id in the state of a pagerduty_incident_custom_field is the id
\* the create call returned, whatever Create, Update and Read did since;
\* an Update without error addresses that object and leaves in state the
\* description the API returned.
C8_IdAndDescription ==
    (rtype = "pagerduty_incident_custom_field" /\ tfstate # NoState) =>
        /\ createdId \in Ids
        /\ tfstate.id = StringValue(createdId)
        /\ (last.op = "Update" /\ diags.errors = {}) =>
              /\ last.calls = <<Call("UpdateCustomField", createdId, NoErr)>>
              /\ Exists(remote, createdId)
              /\ remote[createdId].description = ValueString(last.input.description)
              /\ ValueString(tfstate.description) = remote[createdId].description

\* an Update has changed the description to d2
C8_Witness ==
    /\ rtype = "pagerduty_incident_custom_field"
    /\ last.op = "Update"
    /\ diags.errors = {}
    /\ tfstate # NoState
    /\ tfstate.id = StringValue(createdId)
    /\ tfstate.description = StringValue("d2")

(***************************************************************************)
(* Properties of Read, Update, Delete and ImportState of the resources.    *)
(***************************************************************************)

\* C5: for pagerduty_incident_custom_field, its option, the slack connection
\* and the maintenance window, a 404 Not Found answer to the request of Read
\* is the last call of Read, the resource is removed from state and no
\* error diagnostic is reported.
C5_ReadNotFoundRemoves ==
    (/\ rtype \in {"pagerduty_incident_custom_field",
                   "pagerduty_incident_custom_field_option",
                   "pagerduty_slack_connection",
                   "pagerduty_maintenance_window"}
     /\ last.op = "Read") =>
        \A i \in DOMAIN last.calls :
            IsNotFoundError(last.calls[i].err) =>
                /\ i = Len(last.calls)
                /\ (last.slot = "managed" => tfstate = NoState)
                /\ (last.slot = "imported" => imported = NoState)
                /\ diags.errors = {}

\* a Read of a maintenance window got a 500, tried again, got a 404 and
\* removed the window from state
C5_Witness ==
    /\ rtype = "pagerduty_maintenance_window"
    /\ last.op = "Read"
    /\ last.slot = "managed"
    /\ Len(last.calls) = 2
    /\ last.calls[1].err = APIError(500)
    /\ last.calls[2].err = APIError(StatusNotFound)
    /\ tfstate = NoState
    /\ diags.errors = {}

\* C6: Delete of an incident custom field, its option, a service
\* integration, an event orchestration or a slack connection: a 404 Not
\* Found answer to the delete call ends Delete without error and the
\* resource is removed from state; with any other error Delete reports
\* an error and the state is kept.
C6_DeleteNotFoundIsSuccess ==
    (/\ rtype \in {"pagerduty_incident_custom_field",
                   "pagerduty_incident_custom_field_option",
                   "pagerduty_service_integration",
                   "pagerduty_event_orchestration",
                   "pagerduty_slack_connection"}
     /\ last.op = "Delete") =>
        /\ last.calls # <<>>
        /\ \A i \in DOMAIN last.calls :
              IsNotFoundError(last.calls[i].err) => i = Len(last.calls)
        /\ LET final == last.calls[Len(last.calls)].err
           IN  /\ IsNotFoundError(final) => (diags.errors = {} /\ tfstate = NoState)
               /\ final = NoErr => (diags.errors = {} /\ tfstate = NoState)
               /\ (final # NoErr /\ ~IsNotFoundError(final)) =>
                     (diags.errors # {} /\ tfstate = last.input)

\* the orchestration was already gone when Delete asked for its deletion
C6_Witness ==
    /\ rtype = "pagerduty_event_orchestration"
    /\ last.op = "Delete"
    /\ last.calls = <<Call("DeleteOrchestration", createdId, APIError(StatusNotFound))>>
    /\ tfstate = NoState
    /\ diags.errors = {}

\* C9: Update of a pagerduty_event_orchestration sends its request for the
\* orchestration whose id is in the prior state, the id Create recorded, and
\* after an Update without error the state holds that id with the name and
\* the description the API returned.
C9_UpdateAddressesStateId ==
    (rtype = "pagerduty_event_orchestration" /\ last.op = "Update") =>
        /\ last.calls # <<>>
        /\ \A i \in DOMAIN last.calls :
              /\ last.calls[i].id = ValueString(last.input.id)
              /\ last.calls[i].id = createdId
        /\ diags.errors = {} =>
              /\ tfstate # NoState
              /\ tfstate.id = last.input.id
              /\ tfstate.name = StringValue(remote[createdId].name)
              /\ tfstate.description = StringValue(remote[createdId].description)

\* C10: for a maintenance window that exists, ImportState with its id and
\* the Read that follows give a state with the id, start_time, end_time,
\* description and services that the state made by Create, and kept by
\* Read and Update, has for the same window.
C10_ImportRoundTrip ==
    (/\ rtype = "pagerduty_maintenance_window"
     /\ last.op = "Read"
     /\ last.slot = "imported"
     /\ imported # NoState
     /\ diags.errors = {}) =>
        /\ imported.id = last.input.id
        /\ Exists(remote, ValueString(imported.id))
        /\ (tfstate # NoState /\ tfstate.id = imported.id) =>
              /\ imported.start_time = tfstate.start_time
              /\ imported.end_time = tfstate.end_time
              /\ imported.description = tfstate.description
              /\ imported.services = tfstate.services

\* the window Create made with two services and its own description was
\* imported and read
C10_Witness ==
    /\ rtype = "pagerduty_maintenance_window"
    /\ last.op = "Read"
    /\ last.slot = "imported"
    /\ diags.errors = {}
    /\ tfstate # NoState
    /\ imported = tfstate
    /\ tfstate.id = StringValue(createdId)
    /\ tfstate.description = StringValue("d1")
    /\ tfstate.services = SetValue({StringValue("S1"), StringValue("S2")})

(***************************************************************************)
(* Properties of pagerduty_incident_custom_field_option.                   *)
(***************************************************************************)
C11_CreateSetsFieldAndId ==
    (/\ rtype = "pagerduty_incident_custom_field_option"
     /\ last.op = "Create"
     /\ tfstate # NoState) =>
        /\ tfstate.field = last.input.field
        /\ tfstate.id = StringValue(createdId)

C11_ReadKeepsListedOption ==
    (rtype = "pagerduty_incident_custom_field_option" /\ last.op = "Read") =>
        LET prior == last.input
            final == last.calls[Len(last.calls)].err
            listed == ExistsIn(remote, "field", ValueString(prior.field),
                               ValueString(prior.id))
        IN  /\ (final = NoErr /\ listed) => (tfstate # NoState /\ diags.errors = {})
            /\ tfstate = NoState =>
                  (IsNotFoundError(final) \/ (final = NoErr /\ ~listed))
            /\ (final = NoErr /\ ~listed) => tfstate = NoState

C11_FieldAndIdKept ==
    (/\ rtype = "pagerduty_incident_custom_field_option"
     /\ tfstate # NoState
     /\ tfstate' # NoState) =>
        (tfstate'.field = tfstate.field /\ tfstate'.id = tfstate.id)

C13_MalformedImportId ==
    (/\ rtype \in {"pagerduty_slack_connection", "pagerduty_service_integration"}
     /\ last.op = "ImportState"
     /\ Len(last.input) # 2) =>
        /\ \E e \in diags.errors :
              e \in {"Error importing pagerduty_slack_connection",
                     "Error importing pagerduty_service_integration"}
        /\ last.calls = <<>>
        /\ tfstate = NoState
        /\ \A e \in diags.errors :
              e # Panic("index out of range [1] with length 1")

\* C14: for the priorities p of a planned Slack connection, the config
\* built for the API has nil priorities when p is ["*"], flattening what was
\* built gives p back, and the state a Create sets has the priorities p.
C14_PrioritiesRoundTrip ==
    (rtype = "pagerduty_slack_connection" /\ last.op = "Create") =>
        LET p == last.input.config.elems[1].priorities
            built_ == buildPagerdutySlackConnectionConfig(last.input.config).config
        IN  /\ ~built_.nil
            /\ p = ListValue(<<StringValue(StarWildcardConfig)>>) => built_.priorities.nil
            /\ flattenSlackConnectionConfig(built_).list.elems[1].priorities = p
            /\ (diags.errors = {} /\ tfstate # NoState) =>
                   tfstate.config.elems[1].priorities = p

C16_LabelAndTypeMatch ==
    (rtype = "pagerduty_user_contact_method" /\ last.op = "Read") =>
        LET matching == {id \in Ids : /\ remote[id] # NoObj
                                      /\ remote[id].label = last.input.label.v
                                      /\ remote[id].type = last.input.type.v}
            listed == last.calls[Len(last.calls)].err = NoErr
        IN  /\ tfstate # NoState => ValueString(tfstate.id) \in matching
            /\ (listed /\ matching = {}) =>
                  /\ tfstate = NoState
                  /\ diags.errors =
                        {"Unable to locate any user contact method with label"}

\* C17: a Read of the service data source requests pages of ServiceLimit
\* services at successive offsets, stops at the first page with a service
\* of the configured name or without more pages, sets the state from the
\* first such service of the list, and reports "Unable to locate any service
\* with the name" without state when the list holds none.
C17_Offsets ==
    /\ last.calls[1].id = 0
    /\ \A i \in 1..(Len(last.calls) - 1) :
          last.calls[i + 1].id =
             last.calls[i].id +
             IF last.calls[i].err = NoErr
             THEN Len(ListServices(remote, ServiceLimit, last.calls[i].id).Services)
             ELSE 0
    /\ \A i \in 1..Len(last.calls) :
          Len(ListServices(remote, ServiceLimit, last.calls[i].id).Services) <= ServiceLimit

C17_StopsAtMatchOrEnd ==
    \A i \in 1..(Len(last.calls) - 1) :
        last.calls[i].err = NoErr =>
            LET page == ListServices(remote, ServiceLimit, last.calls[i].id)
            IN  /\ page.More
                /\ \A j \in 1..Len(page.Services) :
                      page.Services[j].name # last.input.name.v

C17_FirstMatch ==
    LET matches == {i \in 1..Len(remote) : remote[i].name = last.input.name.v}
        failed == last.calls[Len(last.calls)].err # NoErr
    IN  /\ tfstate # NoState =>
              /\ matches # {}
              /\ tfstate.id = StringValue(CHOOSE i \in matches : \A j \in matches : i <= j)
              /\ tfstate.name = last.input.name
              /\ diags.errors = {}
        /\ (~failed /\ matches # {}) => tfstate # NoState
        /\ (~failed /\ matches = {}) =>
              /\ tfstate = NoState
              /\ diags.errors = {"Unable to locate any service with the name"}
        /\ failed => (tfstate = NoState /\ diags.errors = {"Error searching Service"})

C17_ServicePages ==
    (rtype = "pagerduty_service" /\ last.op = "Read") =>
        (C17_Offsets /\ C17_StopsAtMatchOrEnd /\ C17_FirstMatch)

\* the first service named "svc" is the first of the second page and another
\* one follows it
C17_Witness ==
    /\ rtype = "pagerduty_service"
    /\ last.op = "Read"
    /\ Len(last.calls) >= 2
    /\ diags.errors = {}
    /\ tfstate # NoState
    /\ tfstate.id = StringValue(ServiceLimit + 1)
    /\ Len(remote) > ServiceLimit + 1
    /\ remote[ServiceLimit + 2].name = "svc"

\* C19: requestGetServiceDependency returns the relationship with the
\* requested id when the list of the service holds it and nil without error
\* when it does not; a Read or Delete of a service dependency whose id is not
\* in the list removes the resource without error diagnostic, and the Delete
\* makes no disassociate call.
C19_RequestGet ==
    (rtype = "pagerduty_service_dependency" /\ tfstate # NoState) =>
        LET id == ValueString(tfstate.id)
            dep == tfstate.dependency.elems[1].dependent_service.elems[1]
            present == /\ remote[id] # NoObj
                       /\ remote[id].dependent_service.id = dep.id.v
        IN  \A answers \in {[i \in 1..RetryTimeLong |-> NoErr],
                            [i \in 1..RetryTimeLong |->
                                IF i = 1 THEN APIError(500) ELSE NoErr]} :
                LET g == requestGetServiceDependency(remote, id, dep.id.v, dep.type.v,
                                                     answers)
                IN  /\ g.errors = {}
                    /\ g.found = IF present THEN remote[id] ELSE NoObj

C19_Step ==
    (/\ rtype = "pagerduty_service_dependency"
     /\ last = NoOp
     /\ last'.op \in {"Read", "Delete"}) =>
        LET id == ValueString(tfstate.id)
            dep == tfstate.dependency.elems[1].dependent_service.elems[1]
            present == /\ remote[id] # NoObj
                       /\ remote[id].dependent_service.id = dep.id.v
            calls == last'.calls
            listed == \E i \in DOMAIN calls : /\ calls[i].api = "ListServiceDependencies"
                                              /\ calls[i].err = NoErr
            disassociated == \E i \in DOMAIN calls :
                                calls[i].api = "DisassociateServiceDependencies"
        IN  /\ (listed /\ ~present) =>
                  /\ tfstate' = NoState
                  /\ diags'.errors = {}
                  /\ ~disassociated
            /\ (listed /\ present /\ last'.op = "Delete") => disassociated
            /\ (listed /\ present /\ last'.op = "Read" /\ diags'.errors = {}) =>
                  /\ tfstate' # NoState
                  /\ tfstate'.id = tfstate.id

C19_AbsentIsRemoved == [](C19_RequestGet) /\ [][C19_Step]_vars

\* a Delete found the list without the relationship of the state
C19_Witness ==
    /\ rtype = "pagerduty_service_dependency"
    /\ last.op = "Delete"
    /\ remote[ValueString(last.input.id)] = NoObj
    /\ last.calls # <<>>
    /\ last.calls[Len(last.calls)] =
          Call("ListServiceDependencies", "B1", NoErr)
    /\ tfstate = NoState
    /\ diags.errors = {}

\* C20: a Read of a service integration or of an event orchestration whose
\* GET is answered 404 Not Found makes no further attempt and removes the
\* resource from the state without error diagnostic.
C20_ReadGoneRemoves ==
    (/\ rtype \in {"pagerduty_service_integration", "pagerduty_event_orchestration"}
     /\ last.op = "Read"
     /\ last.calls # <<>>
     /\ IsNotFoundError(last.calls[1].err)) =>
        /\ Len(last.calls) = 1
        /\ tfstate = NoState
        /\ diags.errors = {}

\* C21: a Create or an Update of a maintenance window or of an incident
\* custom field whose build of the payload from the plan adds an error
\* diagnostic makes no API call.
C21_BuildErrorStopsCall ==
    /\ (/\ rtype = "pagerduty_maintenance_window"
        /\ last.op \in {"Create", "Update"}
        /\ buildPagerdutyMaintenanceWindow(last.input).errors # {}) =>
           last.calls = <<>>
    /\ (/\ rtype = "pagerduty_incident_custom_field"
        /\ last.op \in {"Create", "Update"}
        /\ buildPagerdutyIncidentCustomField(last.input).errors # {}) =>
           last.calls = <<>>

(***************************************************************************)
(* Properties of the retry loops.                                          *)
(***************************************************************************)

\* C2: in every retry loop an API error with status 400 ends the loop at
\* that attempt, and the loop returns that error to its operation.
C2_BadRequestEndsLoop ==
    (loop.attempts > 0 /\ IsBadRequestError(loop.last)) =>
        (loop.status = "done" /\ loop.err = loop.last)

\* C3: in every Create that wraps its API call in a retry loop, an error
\* that is not a 400 is followed by another attempt while the time budget
\* has not elapsed.
C3_CreateRetriesOtherErrors ==
    (/\ loop.kind \in CreateLoops
     /\ loop.attempts > 0
     /\ loop.last # NoErr
     /\ ~IsBadRequestError(loop.last)
     /\ loop.elapsed < LoopBudget(loop.kind)) => loop.status = "running"

\* the budgets the loops are said to have, in minutes
C4_Budget(kind) ==
    IF kind \in {"resourceBusinessService.Create", "requestGetBusinessService",
                 "requestGetServiceDependency", "dataSourceUserContactMethod.Read"}
    THEN 5 ELSE 2

C4_EndsWithinBudget ==
    /\ loop.status = "running" => loop.elapsed < C4_Budget(loop.kind)
    /\ (loop.status = "done" /\ loop.timedOut) =>
          /\ loop.elapsed >= C4_Budget(loop.kind)
          /\ loop.elapsed < C4_Budget(loop.kind) + MaxDelay
          /\ loop.err # NoErr
    /\ (loop.status = "done" /\ ~loop.timedOut) =>
          \/ loop.last = NoErr /\ loop.err = NoErr
          \/ IsNotFoundError(loop.last) /\ loop.err = NoErr
                /\ loop.kind = "resourceSlackConnection.Delete"
          \/ loop.last # NoErr /\ loop.err = loop.last

====
